---- MODULE Spec2Model ----
(***************************************************************************)
(* LLM Tracker: a React single-page application over a hosted backend      *)
(* (relational tables with row-level security, triggers, hosted            *)
(* functions).  The module models                                          *)
(*   - the database: tables, defaults, foreign keys with ON DELETE         *)
(*     CASCADE, the row-level-security policies, the signup trigger;       *)
(*   - the Dashboard, the onboarding flow and the project page: the        *)
(*     handlers that create and delete projects, keywords and reports;     *)
(*   - the AuthProvider, DashboardLayout and the sign-out routine;         *)
(*   - the AIAnalysisButton with its rate-limit hook.                      *)
(* Each part has its own next-state relation and specification over the    *)
(* same variables; the variables a part does not use stay unchanged.       *)
(***************************************************************************)
EXTENDS Integers, Sequences, FiniteSets, TLC

VARIABLES
  \* ---- database (supabase/migrations) ----
  authUsers,      \* auth.users: set of [id, email, created_at]
  profiles,       \* public.profiles rows
  projects,       \* public.projects rows: [id, user_id]
  keywords,       \* public.keywords rows: [id, project_id, priority]
  reports,        \* public.reports rows: [id, project_id, user_id, status]
  api_responses,  \* public.api_responses rows: [id, report_id]
  clock,          \* now(), in days
  nextId,         \* rows generated so far (gen_random_uuid never repeats)
  req,            \* the last request served: [uid, op, target, ok, rows]
  removed         \* history: the rows the last statement deleted, cascade included

dbVars == <<authUsers, profiles, projects, keywords, reports, api_responses,
            clock, nextId, req, removed>>

VARIABLES
  \* ---- AuthProvider context, as the pages see it ----
  profile,           \* useAuth().profile: NoProfile or the profiles row fetched
  \* ---- Dashboard, UpgradePrompter and their hooks ----
  page,              \* the page mounted: "none", "dashboard" or "project"
  stats,             \* Dashboard stats: [projects]
  projectsList,      \* Dashboard projects state: the ids of the cards shown
  projectDialogOpen, \* Dashboard projectDialogOpen (with selectedProject = null)
  canCreateProject,  \* Dashboard canCreateProject
  limits,            \* usePlanLimits state
  trialStatus,       \* useTrialStatus state: [isTrialExpired, isLoading]
  showTrialExpired,  \* UpgradePrompter showTrialExpired
  trialExpiredShown, \* history: setShowTrialExpired(true) has been called
  pending,           \* the fetches in flight
  lastOp,            \* the handler that ran last
  \* ---- ProjectDetails page ----
  pageProject,       \* project state: NoProject or the id of the project shown
  pageKeywords,      \* keywords state: the ids of the keywords listed
  openaiApiKey       \* the API key field: "" or a key

appVars == <<profile, page, stats, projectsList, projectDialogOpen,
             canCreateProject, limits, trialStatus, showTrialExpired, trialExpiredShown, pending, lastOp,
             pageProject, pageKeywords, openaiApiKey>>

VARIABLES
  \* ---- AuthProvider, the router and the browser ----
  user,              \* AuthProvider user: NULL or a user id
  session,           \* AuthProvider session: NULL or the id of its user
  loading,           \* AuthProvider loading
  route,             \* the router's location in the document loaded
  location,          \* window.location.href (the path)
  screen,            \* what the element of the route renders
  getSessionPending, \* the getSession() promise of the mount effect is unsettled
  signInPc,          \* AuthProvider.signIn: "idle", "await", "reload"
  signOutPc,         \* AuthProvider.signOut: "idle", "import", "awaitSignOut"
  localStorage,      \* the keys of window.localStorage
  sessionStorage     \* the keys of window.sessionStorage

authVars == <<user, session, loading, route, location, screen,
              getSessionPending, signInPc, signOutPc, localStorage,
              sessionStorage>>

VARIABLES
  \* ---- AIAnalysisButton and useRateLimit ----
  requests,          \* the Map of the rate limiter in hand: key -> timestamps
  isLimited,         \* useRateLimit isLimited
  analysisLoading,   \* AIAnalysisButton loading
  invocations,       \* history: the times at which 'ai-analysis' was invoked
  dateNow            \* Date.now(), in milliseconds

rateVars == <<requests, isLimited, analysisLoading, invocations, dateNow>>

VARIABLES
  \* ---- BulkKeywordImporter ----
  importerKeywords,  \* keywords state: the entries listed, [priority, status]
  \* ---- public.subscribers ----
  subscribers,       \* rows: [user_id, subscribed, subscription_tier, subscription_end]
  \* ---- Settings page and AuthProvider.refreshProfile ----
  settingsLoading,   \* Settings loading
  settingsToast,     \* the toast handleSaveProfile showed last: "none", "updated", "failed"
  refreshPc,         \* where handleSaveProfile is: "idle", "update", "fetchProfile", "checkSubscription"
  profileFetches,    \* history: profile fetches of the call running (counted up to MaxCounted)
  subscriptionChecks, \* history: check-subscription invocations of the call running
  \* ---- analyzeBrandMention ----
  brandContent,      \* the completion's content, a sequence of tokens
  brandResult        \* the BrandAnalysisResult returned, or NoResult

importVars == <<importerKeywords>>
billingVars == <<subscribers>>
settingsVars == <<settingsLoading, settingsToast, refreshPc, profileFetches,
                  subscriptionChecks>>
brandVars == <<brandContent, brandResult>>
extVars == <<importVars, billingVars, settingsVars, brandVars>>

NULL == "null"
NoProject == 0     \* project state null: ids start at 1
Undefined == -2    \* a number field missing from a jsonb object

(***************************************************************************)
(* Bounds of the model.                                                    *)
(***************************************************************************)
MaxRowId == 2          \* project ids a raw request may name: 1..MaxRowId
MaxKeywordId == 1      \* keyword ids a raw request may name: 1..MaxKeywordId
TickDays == 15         \* the clock advances in steps of TickDays days
MaxClock == 15         \* and stops here
MaxDashProjects == 2   \* projects rows ever created, Dashboard behaviours
MaxDashRows == 2       \* keywords, reports and api_responses rows ever created
MaxCascadeProjects == 1 \* the same, behaviours around a project's deletion
MaxCascadeRows == 3
MaxUsageProjects == 1  \* the same, project-page behaviours
MaxUsageRows == 11
MaxAnalysed == 1       \* keywords analysed with success in one report
MaxImport == 2         \* entries in one bulk import
MaxInvocations == 11   \* invocations of 'ai-analysis' recorded
TickMs == 30000        \* Date.now() advances in steps of TickMs
MaxNow == 60000        \* and stops here
MaxImportLines == 2    \* lines of a text pasted into the importer
MaxImportedRows == 1   \* no import starts once this many rows were created
MaxTrialExtension == 30 \* the latest day a request may name
MaxLimitAsked == 50    \* the largest limit a request may name
MaxCounted == 3        \* fetches and invocations of one save are counted up to here
MaxProse == 3          \* words and numbers before the JSON text of a completion

Users == {"A", "B"}
Tables == {"projects", "keywords", "reports", "api_responses"}
RowIds == 1..MaxRowId
KeywordIds == 1..MaxKeywordId

(***************************************************************************)
(* Program constants.                                                      *)
(***************************************************************************)
TrialDays == 14    \* trial_ends_at DEFAULT (now() + interval '14 days')
PriorityMin == 1   \* CHECK (priority >= 1 AND priority <= 5)
PriorityMax == 5
MaxRequests == 10     \* AIAnalysisButton: useRateLimit({maxRequests: 10, ...})
WindowMs == 60000     \* AIAnalysisButton: windowMs: 60000
ImporterPriorityMax == 10  \* BulkKeywordImporter: Math.min(10, priority)
DefaultConfidence == 50  \* extractConfidence: parseInt(match[1], 10) : 50

(***************************************************************************)
(* get_plan_limits(plan_type): the jsonb object of the plan, '{}' for an   *)
(* unknown plan (every field of it reads as Undefined).                    *)
(***************************************************************************)
get_plan_limits(plan_type) ==
  CASE plan_type = "trial" -> [projects |-> 1, keywords |-> 10, reports |-> 5, competitors |-> 0]
    [] plan_type = "basic" -> [projects |-> 3, keywords |-> 25, reports |-> 15, competitors |-> 1]
    [] plan_type = "gold"  -> [projects |-> 10, keywords |-> 50, reports |-> 50, competitors |-> -1]
    [] OTHER -> [projects |-> Undefined, keywords |-> Undefined,
                 reports |-> Undefined, competitors |-> Undefined]

(***************************************************************************)
(* is_trial_expired(user_profile)                                          *)
(***************************************************************************)
is_trial_expired(user_profile, now) ==
  user_profile.plan = "trial" /\ user_profile.trial_ends_at < now

(***************************************************************************)
(* CREATE TABLE public.profiles: the column defaults a row gets when the   *)
(* insert names only (id, email, full_name).                               *)
(***************************************************************************)
profiles_defaults_basic(id, email, now) ==
  [id |-> id, email |-> email, plan |-> "trial",
   projects_limit |-> 3, keywords_limit |-> 25, reports_limit |-> 15,
   trial_ends_at |-> now + TrialDays, created_at |-> now]
profiles_defaults(id, email, now) ==
  [id |-> id, email |-> email, plan |-> "trial",
   projects_limit |-> 1, keywords_limit |-> 10, reports_limit |-> 5,
   trial_ends_at |-> now + TrialDays, created_at |-> now]

(***************************************************************************)
(* handle_new_user(): the AFTER INSERT trigger on auth.users.  It inserts  *)
(* one profiles row for the new user; profiles.id is the primary key.      *)
(***************************************************************************)
handle_new_user(new_user, profs, now) ==
  IF \E p \in profs : p.id = new_user.id
    THEN profs     \* primary-key violation: unreachable, auth.users.id is unique
    ELSE profs \cup {profiles_defaults(new_user.id, new_user.email, now)}

(***************************************************************************)
(* Row-level-security policies.  uid is auth.uid() of the request.  A      *)
(* policy's sub-select on projects is itself filtered by the projects      *)
(* SELECT policy of the same user.                                         *)
(***************************************************************************)
projects_select_policy(uid, row) == uid = row.user_id
projects_insert_policy(uid, row) == uid = row.user_id
projects_update_policy_any(uid, row) == TRUE
projects_update_policy(uid, row) == uid = row.user_id
projects_delete_policy(uid, row) == uid = row.user_id

VisibleProjects(uid, projs) == {p \in projs : projects_select_policy(uid, p)}

keywords_select_policy(uid, row, projs) ==
  \E p \in VisibleProjects(uid, projs) : p.id = row.project_id /\ p.user_id = uid
keywords_insert_policy(uid, row, projs) ==
  \E p \in VisibleProjects(uid, projs) : p.id = row.project_id /\ p.user_id = uid
keywords_update_policy(uid, row, projs) ==
  \E p \in VisibleProjects(uid, projs) : p.id = row.project_id /\ p.user_id = uid
keywords_delete_policy(uid, row, projs) ==
  \E p \in VisibleProjects(uid, projs) : p.id = row.project_id /\ p.user_id = uid

reports_select_policy(uid, row) == uid = row.user_id
reports_insert_policy(uid, row) == uid = row.user_id

api_responses_insert_policy(uid, row, reps) ==
  \E r \in {x \in reps : reports_select_policy(uid, x)} :
     r.id = row.report_id /\ r.user_id = uid

VisibleKeywords(uid, kws, projs) ==
  {k \in kws : keywords_select_policy(uid, k, projs)}

(***************************************************************************)
(* Table constraints.                                                      *)
(***************************************************************************)
keywords_priority_check(priority) ==
  priority >= PriorityMin /\ priority <= PriorityMax

(***************************************************************************)
(* ON DELETE CASCADE: the rows that go with a set of deleted projects.     *)
(* keywords.project_id and reports.project_id reference projects(id);      *)
(* api_responses.report_id references reports(id).  Referential actions    *)
(* are not subject to row-level security.                                  *)
(***************************************************************************)
cascade_keywords(kws, gone) == {k \in kws : k.project_id \notin gone}
cascade_reports(reps, gone) == {r \in reps : r.project_id \notin gone}
cascade_api_responses_none(resps, reps, gone) == resps
cascade_api_responses(resps, reps, gone) ==
  {a \in resps : \E r \in cascade_reports(reps, gone) : r.id = a.report_id}

(***************************************************************************)
(* The statements a request runs: whether the statement is accepted, and   *)
(* the rows it targets.                                                    *)
(***************************************************************************)
\* INSERT INTO projects: WITH CHECK policy, primary key, FK to auth.users.
db_insert_project(uid, row) ==
  projects_insert_policy(uid, row)
  /\ (\A p \in projects : p.id # row.id)
  /\ (\E u \in authUsers : u.id = row.user_id)

\* UPDATE projects SET user_id = owner WHERE id = id: the rows the USING
\* policy lets through; the new row is checked against the same expression
\* (an UPDATE policy without WITH CHECK applies USING to the new row).
db_update_project_targets(uid, id) ==
  {p \in projects : p.id = id /\ projects_update_policy(uid, p)}
db_update_project_ok(uid, id, owner) ==
  \A p \in db_update_project_targets(uid, id) :
     projects_update_policy(uid, [p EXCEPT !.user_id = owner])
     /\ \E u \in authUsers : u.id = owner

\* DELETE FROM projects WHERE id = id.
db_delete_project_targets(uid, id) ==
  {p \in projects : p.id = id /\ projects_delete_policy(uid, p)}

\* INSERT INTO keywords.
db_insert_keyword(uid, row) ==
  keywords_insert_policy(uid, row, projects)
  /\ (\A k \in keywords : k.id # row.id)
  /\ (\E p \in projects : p.id = row.project_id)
  /\ keywords_priority_check(row.priority)

db_update_keyword_targets(uid, id) ==
  {k \in keywords : k.id = id /\ keywords_update_policy(uid, k, projects)}
db_update_keyword_ok(uid, id, pid) ==
  \A k \in db_update_keyword_targets(uid, id) :
     keywords_update_policy(uid, [k EXCEPT !.project_id = pid], projects)
     /\ \E p \in projects : p.id = pid

db_delete_keyword_targets(uid, id) ==
  {k \in keywords : k.id = id /\ keywords_delete_policy(uid, k, projects)}

(***************************************************************************)
(* Requests of an authenticated user against the tables (the REST API of   *)
(* the backend: the app's supabase.from(...) calls end here, and so does   *)
(* any request a user sends by hand with their own token).                 *)
(***************************************************************************)
Authenticated(uid) == \E u \in authUsers : u.id = uid

Served(uid, op, target, ok, rows) ==
  req' = [uid |-> uid, op |-> op, target |-> target, ok |-> ok, rows |-> rows]

\* supabase.auth.signUp: a row in auth.users, then the trigger.
SignUp(u) ==
  /\ ~Authenticated(u)
  /\ LET new_user == [id |-> u, email |-> u, created_at |-> clock] IN
       /\ authUsers' = authUsers \cup {new_user}
       /\ profiles' = handle_new_user(new_user, profiles, clock)
  /\ Served(u, "signup", 0, TRUE, {})
  /\ removed' = {}
  /\ UNCHANGED <<projects, keywords, reports, api_responses, clock, nextId>>
  /\ UNCHANGED <<appVars, authVars, rateVars, extVars>>

ReqSelectProjects(uid) ==
  /\ Authenticated(uid)
  /\ Served(uid, "select_projects", 0, TRUE, VisibleProjects(uid, projects))
  /\ removed' = {}
  /\ UNCHANGED <<authUsers, profiles, projects, keywords, reports,
                 api_responses, clock, nextId>>
  /\ UNCHANGED <<appVars, authVars, rateVars, extVars>>

ReqSelectKeywords(uid) ==
  /\ Authenticated(uid)
  /\ Served(uid, "select_keywords", 0, TRUE, VisibleKeywords(uid, keywords, projects))
  /\ removed' = {}
  /\ UNCHANGED <<authUsers, profiles, projects, keywords, reports,
                 api_responses, clock, nextId>>
  /\ UNCHANGED <<appVars, authVars, rateVars, extVars>>

ReqInsertProject(uid, id, owner) ==
  /\ Authenticated(uid)
  /\ LET row == [id |-> id, user_id |-> owner] IN
       IF db_insert_project(uid, row)
         THEN /\ projects' = projects \cup {row}
              /\ Served(uid, "insert_project", id, TRUE, {row})
         ELSE /\ projects' = projects
              /\ Served(uid, "insert_project", id, FALSE, {})
  /\ removed' = {}
  /\ UNCHANGED <<authUsers, profiles, keywords, reports, api_responses,
                 clock, nextId>>
  /\ UNCHANGED <<appVars, authVars, rateVars, extVars>>

ReqUpdateProject(uid, id, owner) ==
  /\ Authenticated(uid)
  /\ LET targets == db_update_project_targets(uid, id)
         updated == {[p EXCEPT !.user_id = owner] : p \in targets} IN
       IF db_update_project_ok(uid, id, owner)
         THEN /\ projects' = (projects \ targets) \cup updated
              /\ Served(uid, "update_project", id, TRUE,
                        VisibleProjects(uid, updated))
         ELSE /\ projects' = projects
              /\ Served(uid, "update_project", id, FALSE, {})
  /\ removed' = {}
  /\ UNCHANGED <<authUsers, profiles, keywords, reports, api_responses,
                 clock, nextId>>
  /\ UNCHANGED <<appVars, authVars, rateVars, extVars>>

ReqDeleteProject(uid, id) ==
  /\ Authenticated(uid)
  /\ LET targets == db_delete_project_targets(uid, id)
         gone == {p.id : p \in targets} IN
       /\ projects' = projects \ targets
       /\ keywords' = cascade_keywords(keywords, gone)
       /\ reports' = cascade_reports(reports, gone)
       /\ api_responses' = cascade_api_responses(api_responses, reports, gone)
       /\ removed' = (projects \ projects') \cup (keywords \ keywords')
                      \cup (reports \ reports')
                      \cup (api_responses \ api_responses')
       /\ Served(uid, "delete_project", id, TRUE, {})
  /\ UNCHANGED <<authUsers, profiles, clock, nextId>>
  /\ UNCHANGED <<appVars, authVars, rateVars, extVars>>

ReqInsertKeyword(uid, id, pid) ==
  /\ Authenticated(uid)
  /\ LET row == [id |-> id, project_id |-> pid, priority |-> 1] IN
       IF db_insert_keyword(uid, row)
         THEN /\ keywords' = keywords \cup {row}
              /\ Served(uid, "insert_keyword", id, TRUE, {row})
         ELSE /\ keywords' = keywords
              /\ Served(uid, "insert_keyword", id, FALSE, {})
  /\ removed' = {}
  /\ UNCHANGED <<authUsers, profiles, projects, reports, api_responses,
                 clock, nextId>>
  /\ UNCHANGED <<appVars, authVars, rateVars, extVars>>

ReqUpdateKeyword(uid, id, pid) ==
  /\ Authenticated(uid)
  /\ LET targets == db_update_keyword_targets(uid, id)
         updated == {[k EXCEPT !.project_id = pid] : k \in targets} IN
       IF db_update_keyword_ok(uid, id, pid)
         THEN /\ keywords' = (keywords \ targets) \cup updated
              /\ Served(uid, "update_keyword", id, TRUE,
                        VisibleKeywords(uid, updated, projects))
         ELSE /\ keywords' = keywords
              /\ Served(uid, "update_keyword", id, FALSE, {})
  /\ removed' = {}
  /\ UNCHANGED <<authUsers, profiles, projects, reports, api_responses,
                 clock, nextId>>
  /\ UNCHANGED <<appVars, authVars, rateVars, extVars>>

ReqDeleteKeyword(uid, id) ==
  /\ Authenticated(uid)
  /\ keywords' = keywords \ db_delete_keyword_targets(uid, id)
  /\ removed' = db_delete_keyword_targets(uid, id)
  /\ Served(uid, "delete_keyword", id, TRUE, {})
  /\ UNCHANGED <<authUsers, profiles, projects, reports, api_responses,
                 clock, nextId>>
  /\ UNCHANGED <<appVars, authVars, rateVars, extVars>>
\* Time passes.
Tick(limit) ==
  /\ clock + TickDays <= limit
  /\ clock' = clock + TickDays
  /\ UNCHANGED <<authUsers, profiles, projects, keywords, reports,
                 api_responses, nextId, req, removed>>

(***************************************************************************)
(* profiles and subscribers: what a signed-in user may write.              *)
(***************************************************************************)
auth_email(uid) == (CHOOSE u \in authUsers : u.id = uid).email

profiles_update_policy(uid, row) == uid = row.id
subscribers_update_policy(uid, row) ==
  uid = row.user_id \/ auth_email(uid) = row.email
subscribers_insert_policy(uid, row) ==
  uid = row.user_id \/ auth_email(uid) = row.email

\* The columns a request may name and the values it may give them.
ProfileColumns ==
  {"plan", "projects_limit", "keywords_limit", "reports_limit", "trial_ends_at"}
ProfileValues(col) ==
  IF col = "plan" THEN {"trial", "basic", "gold"}
  ELSE IF col = "trial_ends_at" THEN {TrialDays, TrialDays + MaxTrialExtension}
  ELSE {profiles_defaults(NULL, NULL, 0)[col], MaxLimitAsked}
SubscriberColumns == {"subscribed", "subscription_tier", "subscription_end"}
SubscriberValues(col) ==
  IF col = "subscribed" THEN BOOLEAN
  ELSE IF col = "subscription_tier" THEN {NULL, "gold"}
  ELSE {Undefined, MaxTrialExtension}

\* CREATE TABLE public.subscribers: the defaults of a row.
subscribers_defaults(id, user_id, email) ==
  [id |-> id, user_id |-> user_id, email |-> email, subscribed |-> FALSE,
   subscription_tier |-> NULL, subscription_end |-> Undefined]

\* UPDATE profiles SET col = val WHERE id = id.
db_update_profile_targets(uid, id) ==
  {p \in profiles : p.id = id /\ profiles_update_policy(uid, p)}
db_update_profile_ok(uid, id, col, val) ==
  \A p \in db_update_profile_targets(uid, id) :
     profiles_update_policy(uid, [p EXCEPT ![col] = val])

ReqUpdateProfile(uid, id, col, val) ==
  /\ Authenticated(uid)
  /\ LET targets == db_update_profile_targets(uid, id)
         updated == {[p EXCEPT ![col] = val] : p \in targets} IN
       IF db_update_profile_ok(uid, id, col, val)
         THEN /\ profiles' = (profiles \ targets) \cup updated
              /\ Served(uid, "update_profile", 0, TRUE, {})
         ELSE /\ profiles' = profiles
              /\ Served(uid, "update_profile", 0, FALSE, {})
  /\ removed' = {}
  /\ UNCHANGED <<authUsers, projects, keywords, reports, api_responses,
                 clock, nextId>>
  /\ UNCHANGED <<appVars, authVars, rateVars>>
  /\ UNCHANGED <<importVars, billingVars, settingsVars, brandVars>>

\* INSERT INTO subscribers (user_id, email, subscribed): WITH CHECK policy,
\* email UNIQUE, FK to auth.users.
db_insert_subscriber(uid, row) ==
  /\ subscribers_insert_policy(uid, row)
  /\ \A s \in subscribers : s.email # row.email
  /\ \E u \in authUsers : u.id = row.user_id

ReqInsertSubscriber(uid, user_id, email, subscribed) ==
  /\ Authenticated(uid)
  /\ LET row == [subscribers_defaults(Cardinality(subscribers) + 1, user_id, email)
                   EXCEPT !.subscribed = subscribed] IN
       IF db_insert_subscriber(uid, row)
         THEN /\ subscribers' = subscribers \cup {row}
              /\ Served(uid, "insert_subscriber", row.id, TRUE, {})
         ELSE /\ subscribers' = subscribers
              /\ Served(uid, "insert_subscriber", 0, FALSE, {})
  /\ removed' = {}
  /\ UNCHANGED <<authUsers, profiles, projects, keywords, reports,
                 api_responses, clock, nextId>>
  /\ UNCHANGED <<appVars, authVars, rateVars>>
  /\ UNCHANGED <<importVars, settingsVars, brandVars>>

\* UPDATE subscribers SET col = val WHERE id = id.
db_update_subscriber_targets(uid, id) ==
  {x \in subscribers : x.id = id /\ subscribers_update_policy(uid, x)}
db_update_subscriber_ok(uid, id, col, val) ==
  \A x \in db_update_subscriber_targets(uid, id) :
     subscribers_update_policy(uid, [x EXCEPT ![col] = val])

ReqUpdateSubscriber(uid, id, col, val) ==
  /\ Authenticated(uid)
  /\ LET targets == db_update_subscriber_targets(uid, id)
         updated == {[x EXCEPT ![col] = val] : x \in targets} IN
       IF db_update_subscriber_ok(uid, id, col, val)
         THEN /\ subscribers' = (subscribers \ targets) \cup updated
              /\ Served(uid, "update_subscriber", id, TRUE, {})
         ELSE /\ subscribers' = subscribers
              /\ Served(uid, "update_subscriber", id, FALSE, {})
  /\ removed' = {}
  /\ UNCHANGED <<authUsers, profiles, projects, keywords, reports,
                 api_responses, clock, nextId>>
  /\ UNCHANGED <<appVars, authVars, rateVars>>
  /\ UNCHANGED <<importVars, settingsVars, brandVars>>

(***************************************************************************)
(* The application, for the signed-in user Me.                             *)
(***************************************************************************)
Me == "A"

\* useAuth().profile before a profile is fetched (null).
NoProfile ==
  [id |-> NULL, email |-> NULL, plan |-> NULL, projects_limit |-> 0,
   keywords_limit |-> 0, reports_limit |-> 0, trial_ends_at |-> 0,
   created_at |-> 0]
Plans == {"trial", "basic", "gold"}

MyProjects == {p \in projects : p.user_id = Me}
MyKeywords == {k \in keywords : \E p \in MyProjects : p.id = k.project_id}
MyReports == {r \in reports : r.user_id = Me}

\* usePlanLimits.checkLimitReached(usage, type).  A limit missing from the
\* object get_plan_limits returned compares false.
checkLimitReached(usage, type, lim) ==
  IF lim[type] = Undefined THEN FALSE
  ELSE lim[type] # -1 /\ usage[type] >= lim[type]

\* usePlanLimits: the initial state of the hook.
limits_initial ==
  [projects |-> 0, keywords |-> 0, reports |-> 0, competitors |-> 0,
   isLoading |-> TRUE]

\* useTrialStatus: the initial state of the hook.
trialStatus_initial == [isTrialExpired |-> FALSE, isLoading |-> TRUE]

\* UpgradePrompter's limit-check effect with the Dashboard's onLimitCheck:
\* it runs after every render (its dependencies are new on every render),
\* returns while the limits are loading, and otherwise sets
\* canCreateProject to "the projects limit is not reached".
onLimitCheck(can, lim, st) ==
  IF lim.isLoading THEN can
  ELSE ~checkLimitReached(st, "projects", lim)

\* The effects of usePlanLimits and useTrialStatus for a profile p: what
\* they set at once, and which calls they leave in flight.
fetchPlanLimits_sync(p, lim) ==
  IF p = NoProfile THEN [lim EXCEPT !.isLoading = FALSE] ELSE lim
\* UpgradePrompter's effect on [isTrialExpired, profile?.plan]:
\* if (isTrialExpired && profile?.plan === 'trial') setShowTrialExpired(true).
trialExpiredEffect(shown, ts, p) ==
  shown \/ (ts.isTrialExpired /\ p.plan = "trial")
checkTrialStatus_sync(p, ts) ==
  IF p = NoProfile THEN [ts EXCEPT !.isLoading = FALSE]
  ELSE IF p.plan # "trial" THEN [isTrialExpired |-> FALSE, isLoading |-> FALSE]
  ELSE ts
hooks_inflight(p) ==
  IF p = NoProfile THEN {}
  ELSE IF p.plan # "trial" THEN {"planLimits"}
  ELSE {"planLimits", "trialStatus"}

\* The routes of App.  LayoutRoutes are the pages that wrap their content
\* in DashboardLayout: Dashboard, ProjectDetails, Reports, Settings and
\* Subscription.
LayoutRoutes ==
  {"/dashboard", "/project/:id", "/reports", "/settings", "/subscription"}
Routes == LayoutRoutes \cup {"/", "/auth"}

\* DashboardLayout: a spinner while loading, <Navigate to="/auth"> with no
\* user, the header and the children otherwise.
DashboardLayout_ignoring_loading(isLoading, u) ==
  IF u = NULL THEN "navigate_auth" ELSE "content"
DashboardLayout(isLoading, u) ==
  IF isLoading THEN "spinner"
  ELSE IF u = NULL THEN "navigate_auth"
  ELSE "content"

\* The Auth page: <Navigate to="/"> with a user, the forms otherwise.
Auth(u) ==
  IF u # NULL THEN "navigate_root" ELSE "authForm"

\* What the element of route r renders for the context value (u, isLoading).
\* "/" is the Index page, which does not use DashboardLayout.
Render(r, u, isLoading) ==
  IF r \in LayoutRoutes THEN DashboardLayout(isLoading, u)
  ELSE IF r = "/auth" THEN Auth(u)
  ELSE "other"

NoRequest == UNCHANGED <<req, removed>>
DbUnchanged ==
  UNCHANGED <<authUsers, profiles, projects, keywords, reports,
              api_responses, clock, nextId, req, removed>>
ProjectPageUnchanged == UNCHANGED <<pageProject, pageKeywords, openaiApiKey>>
DashboardUnchanged ==
  UNCHANGED <<stats, projectsList, projectDialogOpen, canCreateProject,
              limits, trialStatus, showTrialExpired, trialExpiredShown>>

\* AuthProvider.fetchProfile resolves: setProfile(data).  The hooks that
\* depend on the profile run their effects again.
FetchProfileDone ==
  /\ "profile" \in pending
  /\ LET p == CHOOSE x \in profiles : x.id = Me IN
       /\ profile' = p
       /\ IF page = "dashboard"
            THEN /\ limits' = fetchPlanLimits_sync(p, limits)
                 /\ trialStatus' = checkTrialStatus_sync(p, trialStatus)
                 /\ showTrialExpired' = trialExpiredEffect(showTrialExpired, trialStatus', p)
                 /\ trialExpiredShown' = (trialExpiredShown \/ showTrialExpired')
                 /\ pending' = (pending \ {"profile"}) \cup hooks_inflight(p)
                 /\ canCreateProject' = onLimitCheck(canCreateProject, limits', stats)
            ELSE /\ pending' = pending \ {"profile"}
                 /\ UNCHANGED <<limits, trialStatus, showTrialExpired, trialExpiredShown, canCreateProject>>
  /\ lastOp' = "fetchProfile"
  /\ UNCHANGED <<authVars, rateVars, extVars>>
  /\ UNCHANGED <<page, stats, projectsList, projectDialogOpen>>
  /\ ProjectPageUnchanged
  /\ DbUnchanged

\* The Dashboard mounts: its state is the initial state, fetchDashboardData
\* starts, the hooks run their effects for the profile at hand.
MountDashboard ==
  /\ page # "dashboard"
  /\ page' = "dashboard"
  /\ stats' = [projects |-> 0]
  /\ projectsList' = {}
  /\ projectDialogOpen' = FALSE
  /\ limits' = fetchPlanLimits_sync(profile, limits_initial)
  /\ trialStatus' = checkTrialStatus_sync(profile, trialStatus_initial)
  /\ showTrialExpired' = trialExpiredEffect(FALSE, trialStatus', profile)
  /\ trialExpiredShown' = (trialExpiredShown \/ showTrialExpired')
  /\ pending' = (pending \cap {"profile"}) \cup {"dashboardData"}
                  \cup hooks_inflight(profile)
  /\ canCreateProject' = onLimitCheck(TRUE, limits', stats')
  /\ pageProject' = NoProject
  /\ pageKeywords' = {}
  /\ openaiApiKey' = ""
  /\ lastOp' = "mountDashboard"
  /\ route' = "/dashboard"
  /\ location' = "/dashboard"
  /\ screen' = Render(route', user, loading)
  /\ UNCHANGED <<user, session, loading, getSessionPending, signInPc,
                 signOutPc, localStorage, sessionStorage>>
  /\ UNCHANGED <<rateVars, extVars>>
  /\ UNCHANGED profile
  /\ DbUnchanged

\* usePlanLimits.fetchPlanLimits: the get_plan_limits call returns, with
\* the limits of the plan or with an error.
fetchPlanLimits(error) ==
  /\ page = "dashboard"
  /\ "planLimits" \in pending
  /\ pending' = pending \ {"planLimits"}
  /\ limits' = IF error THEN [limits EXCEPT !.isLoading = FALSE]
               ELSE [projects |-> get_plan_limits(profile.plan).projects,
                     keywords |-> get_plan_limits(profile.plan).keywords,
                     reports |-> get_plan_limits(profile.plan).reports,
                     competitors |-> get_plan_limits(profile.plan).competitors,
                     isLoading |-> FALSE]
  /\ canCreateProject' = onLimitCheck(canCreateProject, limits', stats)
  /\ lastOp' = "fetchPlanLimits"
  /\ UNCHANGED <<authVars, rateVars, extVars>>
  /\ UNCHANGED <<profile, page, stats, projectsList, projectDialogOpen, trialStatus, showTrialExpired, trialExpiredShown>>
  /\ ProjectPageUnchanged
  /\ DbUnchanged

\* useTrialStatus.checkTrialStatus: the is_trial_expired call returns.  The
\* call passes the profile the client holds; now() is the server's.
checkTrialStatus ==
  /\ page = "dashboard"
  /\ "trialStatus" \in pending
  /\ pending' = pending \ {"trialStatus"}
  /\ trialStatus' = [isTrialExpired |-> is_trial_expired(profile, clock),
                     isLoading |-> FALSE]
  /\ showTrialExpired' = trialExpiredEffect(showTrialExpired, trialStatus', profile)
  /\ trialExpiredShown' = (trialExpiredShown \/ showTrialExpired')
  /\ canCreateProject' = onLimitCheck(canCreateProject, limits, stats)
  /\ lastOp' = "checkTrialStatus"
  /\ UNCHANGED <<authVars, rateVars, extVars>>
  /\ UNCHANGED <<profile, page, stats, projectsList, projectDialogOpen, limits>>
  /\ ProjectPageUnchanged
  /\ DbUnchanged

\* Dashboard.fetchDashboardData resolves: the projects and their count, as
\* the SELECT policies show them.
fetchDashboardData ==
  /\ page = "dashboard"
  /\ "dashboardData" \in pending
  /\ pending' = pending \ {"dashboardData"}
  /\ projectsList' = {p.id : p \in VisibleProjects(Me, projects)}
  /\ stats' = [projects |-> Cardinality(VisibleProjects(Me, projects))]
  /\ canCreateProject' = onLimitCheck(canCreateProject, limits, stats')
  /\ lastOp' = "fetchDashboardData"
  /\ UNCHANGED <<authVars, rateVars, extVars>>
  /\ UNCHANGED <<profile, page, projectDialogOpen, limits, trialStatus, showTrialExpired, trialExpiredShown>>
  /\ ProjectPageUnchanged
  /\ DbUnchanged

\* Dashboard.openCreateDialog (the Create Project buttons are disabled
\* while canCreateProject is false).
openCreateDialog ==
  /\ page = "dashboard"
  /\ canCreateProject
  /\ projectDialogOpen' = TRUE
  /\ lastOp' = "openCreateDialog"
  /\ UNCHANGED <<authVars, rateVars, extVars>>
  /\ UNCHANGED <<profile, page, stats, projectsList, canCreateProject,
                 limits, trialStatus, showTrialExpired, trialExpiredShown, pending>>
  /\ ProjectPageUnchanged
  /\ DbUnchanged

\* Dashboard.handleCreateProject, the onSave of the project dialog.
handleCreateProject ==
  /\ page = "dashboard"
  /\ projectDialogOpen
  /\ lastOp' = "handleCreateProject"
  /\ UNCHANGED <<authVars, rateVars, extVars>>
  /\ LET row == [id |-> nextId["projects"] + 1, user_id |-> Me] IN
       IF canCreateProject /\ db_insert_project(Me, row)
         THEN /\ projects' = projects \cup {row}
              /\ nextId' = [nextId EXCEPT !["projects"] = @ + 1]
              /\ Served(Me, "insert_project", row.id, TRUE, {row})
              /\ removed' = {}
              /\ projectsList' = projectsList \cup {row.id}
              /\ stats' = [stats EXCEPT !.projects = @ + 1]
              /\ projectDialogOpen' = FALSE
              /\ canCreateProject' = onLimitCheck(canCreateProject, limits, stats')
         ELSE /\ UNCHANGED <<projects, nextId, req, removed, projectsList,
                             stats, projectDialogOpen, canCreateProject>>
  /\ UNCHANGED <<authUsers, profiles, keywords, reports, api_responses, clock>>
  /\ UNCHANGED <<profile, page, limits, trialStatus, showTrialExpired, trialExpiredShown, pending>>
  /\ ProjectPageUnchanged

\* OnboardingFlow.createProject.
createProject ==
  /\ lastOp' = "createProject"
  /\ UNCHANGED <<authVars, rateVars, extVars>>
  /\ LET row == [id |-> nextId["projects"] + 1, user_id |-> Me] IN
       IF db_insert_project(Me, row)
         THEN /\ projects' = projects \cup {row}
              /\ nextId' = [nextId EXCEPT !["projects"] = @ + 1]
              /\ Served(Me, "insert_project", row.id, TRUE, {row})
              /\ removed' = {}
         ELSE UNCHANGED <<projects, nextId, req, removed>>
  /\ UNCHANGED <<authUsers, profiles, keywords, reports, api_responses, clock>>
  /\ UNCHANGED <<profile, page, pending>>
  /\ DashboardUnchanged
  /\ ProjectPageUnchanged

\* Dashboard.handleDeleteProject for the card chosen in openDeleteDialog.
handleDeleteProject(projectToDelete) ==
  /\ page = "dashboard"
  /\ projectToDelete \in projectsList
  /\ lastOp' = "handleDeleteProject"
  /\ UNCHANGED <<authVars, rateVars, extVars>>
  /\ LET targets == db_delete_project_targets(Me, projectToDelete)
         gone == {p.id : p \in targets} IN
       /\ projects' = projects \ targets
       /\ keywords' = cascade_keywords(keywords, gone)
       /\ reports' = cascade_reports(reports, gone)
       /\ api_responses' = cascade_api_responses(api_responses, reports, gone)
       /\ removed' = (projects \ projects') \cup (keywords \ keywords')
                      \cup (reports \ reports')
                      \cup (api_responses \ api_responses')
       /\ Served(Me, "delete_project", projectToDelete, TRUE, {})
  /\ projectsList' = projectsList \ {projectToDelete}
  /\ stats' = [stats EXCEPT !.projects = @ - 1]
  /\ canCreateProject' = onLimitCheck(canCreateProject, limits, stats')
  /\ UNCHANGED <<authUsers, profiles, clock, nextId>>
  /\ UNCHANGED <<profile, page, projectDialogOpen, limits, trialStatus, showTrialExpired, trialExpiredShown, pending>>
  /\ ProjectPageUnchanged

\* Dashboard.handleViewProject, then ProjectDetails.fetchProjectData: the
\* project page replaces the Dashboard (whose state goes with it) and loads
\* the project and its keywords (Project Not Found when the select returns
\* no row).
handleViewProject(id) ==
  /\ page = "dashboard"
  /\ id \in projectsList
  /\ page' = "project"
  /\ pending' = pending \cap {"profile"}
  /\ IF \E p \in VisibleProjects(Me, projects) : p.id = id
       THEN /\ pageProject' = id
            /\ pageKeywords' = {k.id : k \in {x \in VisibleKeywords(Me, keywords, projects) :
                                               x.project_id = id}}
       ELSE /\ pageProject' = NoProject
            /\ pageKeywords' = {}
  /\ openaiApiKey' = ""
  /\ lastOp' = "handleViewProject"
  /\ route' = "/project/:id"
  /\ location' = "/project/:id"
  /\ screen' = Render(route', user, loading)
  /\ UNCHANGED <<user, session, loading, getSessionPending, signInPc,
                 signOutPc, localStorage, sessionStorage>>
  /\ UNCHANGED <<rateVars, extVars>>
  /\ stats' = [projects |-> 0]
  /\ projectsList' = {}
  /\ projectDialogOpen' = FALSE
  /\ canCreateProject' = TRUE
  /\ limits' = limits_initial
  /\ trialStatus' = trialStatus_initial
  /\ showTrialExpired' = FALSE
  /\ UNCHANGED trialExpiredShown
  /\ UNCHANGED profile
  /\ DbUnchanged

\* ProjectDetails.handleAddKeyword (priority takes the column default).
handleAddKeyword ==
  /\ page = "project"
  /\ pageProject # NoProject
  /\ lastOp' = "handleAddKeyword"
  /\ UNCHANGED <<authVars, rateVars, extVars>>
  /\ LET row == [id |-> nextId["keywords"] + 1, project_id |-> pageProject,
                 priority |-> 1] IN
       IF db_insert_keyword(Me, row)
         THEN /\ keywords' = keywords \cup {row}
              /\ nextId' = [nextId EXCEPT !["keywords"] = @ + 1]
              /\ Served(Me, "insert_keyword", row.id, TRUE, {row})
              /\ removed' = {}
              /\ pageKeywords' = pageKeywords \cup {row.id}
         ELSE UNCHANGED <<keywords, nextId, req, removed, pageKeywords>>
  /\ UNCHANGED <<authUsers, profiles, projects, reports, api_responses, clock>>
  /\ UNCHANGED <<profile, page, pending, pageProject, openaiApiKey>>
  /\ DashboardUnchanged

\* The rows importKeywords leaves in the table: it inserts the entries one
\* by one and counts an entry the database refuses as an error.
RECURSIVE import_rows(_, _, _, _)
import_rows(entries, projectId, kws, n) ==
  IF entries = <<>> THEN kws
  ELSE LET row == [id |-> n + 1, project_id |-> projectId,
                   priority |-> Head(entries).priority] IN
         IF db_insert_keyword(Me, row)
           THEN import_rows(Tail(entries), projectId, kws \cup {row}, n + 1)
           ELSE import_rows(Tail(entries), projectId, kws, n)

\* BulkKeywordImporter.importKeywords for the entries in its list.  No page
\* of the sources mounts the importer; it runs here while the project page
\* is not mounted.
importKeywords(projectId, entries) ==
  /\ page # "project"
  /\ entries # <<>>
  /\ lastOp' = "importKeywords"
  /\ UNCHANGED <<authVars, rateVars, extVars>>
  /\ keywords' = import_rows(entries, projectId, keywords, nextId["keywords"])
  /\ nextId' = [nextId EXCEPT !["keywords"] = @ + Cardinality(keywords' \ keywords)]
  /\ Served(Me, "insert_keyword", 0, keywords' # keywords, {})
  /\ removed' = {}
  /\ UNCHANGED <<authUsers, profiles, projects, reports, api_responses, clock>>
  /\ UNCHANGED <<profile, page, pending>>
  /\ DashboardUnchanged
  /\ ProjectPageUnchanged

\* The API key field of the project page.
setOpenaiApiKey ==
  /\ page = "project"
  /\ openaiApiKey = ""
  /\ openaiApiKey' = "sk"
  /\ lastOp' = "setOpenaiApiKey"
  /\ UNCHANGED <<authVars, rateVars, extVars>>
  /\ UNCHANGED <<profile, page, pending, pageProject, pageKeywords>>
  /\ DashboardUnchanged
  /\ DbUnchanged

\* ProjectDetails.handleGenerateReport; analysed is the number of keywords
\* whose analysis succeeded (one api_responses row each).
handleGenerateReport(analysed) ==
  /\ page = "project"
  /\ pageProject # NoProject
  /\ pageKeywords # {}
  /\ analysed <= Cardinality(pageKeywords)
  /\ lastOp' = "handleGenerateReport"
  /\ UNCHANGED <<authVars, rateVars, extVars>>
  /\ LET report == [id |-> nextId["reports"] + 1, project_id |-> pageProject,
                    user_id |-> Me, status |-> "processing"]
         accepted == /\ openaiApiKey # ""
                     /\ reports_insert_policy(Me, report)
                     /\ \E p \in projects : p.id = report.project_id
         responses == {[id |-> nextId["api_responses"] + i, report_id |-> report.id] :
                         i \in 1..analysed} IN
       IF accepted
         THEN /\ reports' = reports \cup {[report EXCEPT !.status = "completed"]}
              /\ api_responses' = api_responses \cup
                   {a \in responses :
                      api_responses_insert_policy(Me, a, reports \cup {report})}
              /\ nextId' = [nextId EXCEPT !["reports"] = @ + 1,
                                          !["api_responses"] = @ + analysed]
              /\ Served(Me, "insert_report", report.id, TRUE, {report})
              /\ removed' = {}
         ELSE UNCHANGED <<reports, api_responses, nextId, req, removed>>
  /\ UNCHANGED <<authUsers, profiles, projects, keywords, clock>>
  /\ UNCHANGED <<profile, page, pending>>
  /\ DashboardUnchanged
  /\ ProjectPageUnchanged

\* Time passes between raw requests.
DbTick ==
  /\ Tick(MaxClock)
  /\ UNCHANGED <<appVars, authVars, rateVars, extVars>>

\* TrialExpiredDialog's onOpenChange(false): the user closes the dialog.
closeTrialExpired ==
  /\ page = "dashboard"
  /\ showTrialExpired
  /\ showTrialExpired' = FALSE
  /\ lastOp' = "closeTrialExpired"
  /\ UNCHANGED <<profile, page, pending, trialExpiredShown>>
  /\ UNCHANGED <<stats, projectsList, projectDialogOpen, canCreateProject,
                 limits, trialStatus>>
  /\ ProjectPageUnchanged
  /\ UNCHANGED <<authVars, rateVars, extVars>>
  /\ DbUnchanged

\* UpgradePrompter.handleUpgrade, from the dialog: create-checkout returns
\* a url (the dialogs close) or fails (a toast).
handleUpgrade(url) ==
  /\ page = "dashboard"
  /\ showTrialExpired
  /\ showTrialExpired' = (IF url THEN FALSE ELSE showTrialExpired)
  /\ lastOp' = "handleUpgrade"
  /\ UNCHANGED <<profile, page, pending, trialExpiredShown>>
  /\ UNCHANGED <<stats, projectsList, projectDialogOpen, canCreateProject,
                 limits, trialStatus>>
  /\ ProjectPageUnchanged
  /\ UNCHANGED <<authVars, rateVars, extVars>>
  /\ DbUnchanged

\* Time passes while the application is open.
AppTick ==
  /\ Tick(MaxClock)
  /\ UNCHANGED <<appVars, authVars, rateVars, extVars>>

(***************************************************************************)
(* The BulkKeywordImporter.                                                *)
(***************************************************************************)
\* The second field of a line, as typed, and parseInt of the numerals.
Numeral ==
  [x \in {"-1", "0", "1", "3", "5", "6", "7", "8", "10", "11"} |->
     CASE x = "-1" -> -1 [] x = "0" -> 0 [] x = "1" -> 1 [] x = "3" -> 3
       [] x = "5" -> 5 [] x = "6" -> 6 [] x = "7" -> 7 [] x = "8" -> 8
       [] x = "10" -> 10 [] x = "11" -> 11]
PriorityParts == {"", "abc", "0", "3", "11"}
isNaN_parseInt(part) == part \notin DOMAIN Numeral
min(a, b) == IF a <= b THEN a ELSE b
max(a, b) == IF a >= b THEN a ELSE b

\* The priority parseTextInput and parseCsvFile give an entry whose line
\* has the second field part: parts[1] ? parseInt(parts[1]) : 1, then
\* isNaN(priority) ? 1 : Math.max(1, Math.min(10, priority)).
parsePriority(part) ==
  IF part = "" THEN 1
  ELSE IF isNaN_parseInt(part) THEN 1
  ELSE max(1, min(ImporterPriorityMax, Numeral[part]))

parsed(parts) ==
  [i \in 1..Len(parts) |->
     [priority |-> parsePriority(parts[i]), status |-> "pending"]]

\* The rows of the CSV downloadTemplate writes, after the header.
templateParts == <<"5", "3", "8", "7">>

ImporterUnchanged ==
  /\ UNCHANGED <<appVars, authVars, rateVars>>
  /\ UNCHANGED <<billingVars, settingsVars, brandVars>>

\* parseTextInput, for a text whose lines have the second fields parts.
parseTextInput(parts) ==
  /\ parts # <<>>
  /\ importerKeywords' = parsed(parts)
  /\ DbUnchanged
  /\ ImporterUnchanged

\* parseCsvFile, for the file downloadTemplate wrote.
parseCsvFile ==
  /\ importerKeywords' = parsed(templateParts)
  /\ DbUnchanged
  /\ ImporterUnchanged

\* updateKeywordPriority(index, priority), from the number field shown for a
\* pending entry.
updateKeywordPriority(index, priority) ==
  /\ index \in DOMAIN importerKeywords
  /\ importerKeywords[index].status = "pending"
  /\ importerKeywords' =
       [importerKeywords EXCEPT ![index].priority =
          max(1, min(ImporterPriorityMax, priority))]
  /\ DbUnchanged
  /\ ImporterUnchanged

\* removeKeyword(index), from the button shown for a pending entry.
removeKeyword(index) ==
  /\ index \in DOMAIN importerKeywords
  /\ importerKeywords[index].status = "pending"
  /\ importerKeywords' =
       [i \in 1..(Len(importerKeywords) - 1) |->
          IF i < index THEN importerKeywords[i] ELSE importerKeywords[i + 1]]
  /\ DbUnchanged
  /\ ImporterUnchanged

\* importKeywords, for the entries listed: one insert per entry; an entry
\* the database refuses is marked 'error', the others 'success'.
importKeywords_listed(projectId) ==
  /\ importerKeywords # <<>>
  /\ keywords' = import_rows(importerKeywords, projectId, keywords, nextId["keywords"])
  /\ nextId' = [nextId EXCEPT !["keywords"] = @ + Cardinality(keywords' \ keywords)]
  /\ importerKeywords' =
       [i \in DOMAIN importerKeywords |->
          [importerKeywords[i] EXCEPT !.status =
             IF db_insert_keyword(Me, [id |-> nextId["keywords"] + i,
                                       project_id |-> projectId,
                                       priority |-> importerKeywords[i].priority])
               THEN "success" ELSE "error"]]
  /\ Served(Me, "insert_keyword", 0, keywords' # keywords, {})
  /\ removed' = {}
  /\ UNCHANGED <<authUsers, profiles, projects, reports, api_responses, clock>>
  /\ ImporterUnchanged

(***************************************************************************)
(* The Settings page: handleSaveProfile and AuthProvider.refreshProfile.   *)
(***************************************************************************)
counted(n) == IF n < MaxCounted THEN n + 1 ELSE MaxCounted

SettingsUnchanged ==
  /\ UNCHANGED <<page, stats, projectsList, projectDialogOpen, canCreateProject,
                 limits, trialStatus, showTrialExpired, trialExpiredShown,
                 pending, lastOp, pageProject, pageKeywords, openaiApiKey>>
  /\ UNCHANGED <<authVars, rateVars>>
  /\ UNCHANGED <<importVars, billingVars, brandVars>>
  /\ DbUnchanged

\* handleSaveProfile returns from `await refreshProfile()`: the toast
\* 'Profile updated', then finally setLoading(false).
refreshProfile_returns ==
  /\ settingsToast' = "updated"
  /\ settingsLoading' = FALSE
  /\ refreshPc' = "idle"

\* handleSaveProfile, up to the update it awaits: if (!user) return;
\* setLoading(true).
handleSaveProfile ==
  /\ user # NULL
  /\ ~settingsLoading
  /\ settingsLoading' = TRUE
  /\ refreshPc' = "update"
  /\ profileFetches' = 0
  /\ subscriptionChecks' = 0
  /\ UNCHANGED <<settingsToast, profile>>
  /\ SettingsUnchanged

\* The update of profiles (full_name, company, updated_at) settles.  With
\* an error the catch shows 'Update failed'; without, refreshProfile is
\* called: if (user) await fetchProfile(user.id).
handleSaveProfile_updated(error) ==
  /\ refreshPc = "update"
  /\ IF error
       THEN /\ settingsToast' = "failed"
            /\ settingsLoading' = FALSE
            /\ refreshPc' = "idle"
            /\ UNCHANGED profileFetches
       ELSE /\ refreshPc' = "fetchProfile"
            /\ profileFetches' = counted(profileFetches)
            /\ UNCHANGED <<settingsToast, settingsLoading>>
  /\ UNCHANGED <<subscriptionChecks, profile>>
  /\ SettingsUnchanged

\* fetchProfile: the select settles.  With an error it returns, and so
\* does every call that awaits it; without, setProfile(data) and
\* checkSubscriptionStatus(), whose session is the signed-in user's.
fetchProfile(error) ==
  /\ refreshPc = "fetchProfile"
  /\ IF error
       THEN /\ refreshProfile_returns
            /\ UNCHANGED <<profile, subscriptionChecks>>
       ELSE /\ profile' = (CHOOSE x \in profiles : x.id = user)
            /\ IF session = NULL
                 THEN refreshProfile_returns /\ UNCHANGED subscriptionChecks
                 ELSE /\ refreshPc' = "checkSubscription"
                      /\ subscriptionChecks' = counted(subscriptionChecks)
                      /\ UNCHANGED <<settingsToast, settingsLoading>>
  /\ UNCHANGED profileFetches
  /\ SettingsUnchanged

\* checkSubscriptionStatus: the invocation of 'check-subscription' settles.
\* With an error it returns; without, it awaits refreshProfile().
checkSubscriptionStatus(error) ==
  /\ refreshPc = "checkSubscription"
  /\ IF error
       THEN /\ refreshProfile_returns
            /\ UNCHANGED profileFetches
       ELSE /\ refreshPc' = "fetchProfile"
            /\ profileFetches' = counted(profileFetches)
            /\ UNCHANGED <<settingsToast, settingsLoading>>
  /\ UNCHANGED <<subscriptionChecks, profile>>
  /\ SettingsUnchanged

(***************************************************************************)
(* analyzeBrandMention and parseBrandAnalysis.  A content is a sequence of *)
(* tokens: words and digit strings of the prose, and the braces, quoted    *)
(* keys and values of a JSON text.                                         *)
(***************************************************************************)
Word(w) == [t |-> "word", w |-> w, n |-> 0]
Num(n) == [t |-> "num", w |-> "", n |-> n]
Key(k) == [t |-> "key", w |-> k, n |-> 0]
Punct(c) == [t |-> "punct", w |-> c, n |-> 0]
JTrue == [t |-> "lit", w |-> "true", n |-> 0]
JFalse == [t |-> "lit", w |-> "false", n |-> 0]
JNull == [t |-> "lit", w |-> "null", n |-> 0]
Absent == [t |-> "undefined", w |-> "", n |-> 0]

\* brandResult before an analysis has returned, and whether it is a result.
NoResult == [keyword |-> NULL]
IsResult(r) == "brandMentioned" \in DOMAIN r

\* a ?? b takes b when a is null or undefined.
nullish(v) == v \in {JNull, Absent}
coalesce(a, b) == IF nullish(a) THEN b ELSE a

toLowerCase(w) ==
  CASE w = "Acme" -> "acme" [] w = "ACME" -> "acme" [] w = "Rank" -> "rank"
    [] OTHER -> w

\* The objects a completion may carry: {"targetBrand": {"mentioned": ..,
\* "position": ..}, "confidence": ..}, each member present or not.
JsonObjects ==
  [hasTargetBrand : BOOLEAN,
   mentioned : {Absent, JTrue, JFalse},
   position : {Absent, JNull, Num(1)},
   confidence : {Absent, Num(85), Num(150), Num(0 - 5)}]
EmptyObject ==
  [hasTargetBrand |-> FALSE, mentioned |-> Absent, position |-> Absent,
   confidence |-> Absent]
member(k, v) == IF v = Absent THEN <<>> ELSE <<Key(k), v>>
stringify(o) ==
  <<Punct("{")>>
    \o (IF o.hasTargetBrand
          THEN <<Key("targetBrand"), Punct("{")>> \o member("mentioned", o.mentioned)
                 \o member("position", o.position) \o <<Punct("}")>>
          ELSE <<>>)
    \o member("confidence", o.confidence)
    \o <<Punct("}")>>

\* content.match(/\{[\s\S]*\}/): from the first '{' to the last '}'.
jsonMatch(content) ==
  LET opens == {i \in DOMAIN content : content[i] = Punct("{")}
      closes == {i \in DOMAIN content : content[i] = Punct("}")} IN
    IF opens = {} \/ closes = {} THEN <<>>
    ELSE LET first == CHOOSE i \in opens : \A j \in opens : i <= j
             last == CHOOSE i \in closes : \A j \in closes : j <= i IN
           IF first < last THEN SubSeq(content, first, last) ELSE <<>>

\* JSON.parse inside the try: the object whose text this is; any other text
\* throws and parsedData stays {}.
parsedData(content) ==
  LET text == jsonMatch(content) IN
    IF \E o \in JsonObjects : stringify(o) = text
      THEN LET o == CHOOSE x \in JsonObjects : stringify(x) = text IN
             IF o.hasTargetBrand THEN o
             ELSE [o EXCEPT !.mentioned = Absent, !.position = Absent]
      ELSE EmptyObject

\* The first match of a regex made of a word and digits after it.
firstMatch(content, words) ==
  LET hits == {i \in DOMAIN content :
                 /\ content[i].t = "word"
                 /\ toLowerCase(content[i].w) \in words
                 /\ i + 1 \in DOMAIN content
                 /\ content[i + 1].t = "num"
                 /\ content[i + 1].n >= 0} IN
    IF hits = {} THEN 0 ELSE CHOOSE i \in hits : \A j \in hits : i <= j

\* /(?:position|rank|#|number)\s*:?\s*(\d+)/i
extractPosition(content) ==
  LET i == firstMatch(content, {"position", "rank", "#", "number"}) IN
    IF i = 0 THEN JNull ELSE Num(content[i + 1].n)

\* /confidence[:\s]*(\d+)/i, 50 without a match
extractConfidence(content) ==
  LET i == firstMatch(content, {"confidence"}) IN
    IF i = 0 THEN Num(DefaultConfidence) ELSE Num(content[i + 1].n)

\* content.toLowerCase().includes(brandName.toLowerCase())
includesBrand(content, brandName) ==
  \E i \in DOMAIN content :
     content[i].t = "word" /\ toLowerCase(content[i].w) = toLowerCase(brandName)

parseBrandAnalysis(content, keyword, brandName) ==
  LET data == parsedData(content) IN
    [keyword |-> keyword,
     brandMentioned |->
       IF nullish(data.mentioned) THEN includesBrand(content, brandName)
       ELSE data.mentioned = JTrue,
     position |-> coalesce(data.position, extractPosition(content)),
     confidence |-> coalesce(data.confidence, extractConfidence(content))]

BrandUnchanged ==
  /\ UNCHANGED <<appVars, authVars, rateVars>>
  /\ UNCHANGED <<importVars, billingVars, settingsVars>>
  /\ DbUnchanged

\* analyzeBrandMention: the completion has arrived with brandContent.
analyzeBrandMention ==
  /\ brandResult = NoResult
  /\ brandResult' = parseBrandAnalysis(brandContent, "kw", "ACME")
  /\ UNCHANGED brandContent
  /\ BrandUnchanged

\* analyzeBrandMention: the request fails (response.ok is false, or fetch
\* throws): 'Failed to analyze brand mention'.
analyzeBrandMention_error ==
  /\ brandResult = NoResult
  /\ brandResult' = [error |-> "Failed to analyze brand mention"]
  /\ UNCHANGED brandContent
  /\ BrandUnchanged

(***************************************************************************)
(* The AuthProvider, the router and the sign-out routine.                  *)
(***************************************************************************)
\* Storage keys are sequences of characters.
supabase_auth_prefix ==
  <<"s","u","p","a","b","a","s","e",".","a","u","t","h",".">>
sb_dash == <<"s","b","-">>
key_supabase_auth_token == supabase_auth_prefix \o <<"t","o","k","e","n">>
key_sb_ref_auth_token ==
  <<"s","b","-","r","e","f","-","a","u","t","h","-","t","o","k","e","n">>
key_my_sb_cache == <<"m","y","-","s","b","-","c","a","c","h","e">>
key_theme == <<"t","h","e","m","e">>
key_supabase_auth == <<"s","u","p","a","b","a","s","e",".","a","u","t","h">>
LocalKeys ==
  {key_supabase_auth_token, key_sb_ref_auth_token, key_my_sb_cache, key_theme}
SessionKeys == {key_sb_ref_auth_token, key_supabase_auth}

\* String.prototype.startsWith and String.prototype.includes.
startsWith(key, prefix) ==
  /\ Len(key) >= Len(prefix)
  /\ SubSeq(key, 1, Len(prefix)) = prefix
includes(key, part) ==
  \E i \in 1..(Len(key) - Len(part) + 1) :
     SubSeq(key, i, i + Len(part) - 1) = part

\* cleanupAuthState, on one storage: removeItem('supabase.auth.token'),
\* then removeItem of every key that starts with 'supabase.auth.' or
\* includes 'sb-'.  Storage access does not throw, so the outer catch of
\* performRobustSignOut is not taken.
cleanupAuthState_startsWith_only(store) ==
  {key \in store : ~startsWith(key, supabase_auth_prefix)}
cleanupAuthState(store) ==
  {key \in store \ {key_supabase_auth_token} :
     ~(startsWith(key, supabase_auth_prefix) \/ includes(key, sb_dash))}

AuthPagesUnchanged ==
  UNCHANGED <<page, stats, projectsList, projectDialogOpen, canCreateProject,
              limits, trialStatus, showTrialExpired, trialExpiredShown, pageProject, pageKeywords, openaiApiKey>>
StorageUnchanged == UNCHANGED <<localStorage, sessionStorage>>

\* The browser loads the application at route r: the user opens the URL,
\* or an assignment to window.location.href takes effect.  The AuthProvider
\* mounts: user and session null, loading true, getSession() called.
PageLoad(r) ==
  /\ location # route => r = location
  /\ route' = r
  /\ location' = r
  /\ user' = NULL
  /\ session' = NULL
  /\ loading' = TRUE
  /\ getSessionPending' = TRUE
  /\ signInPc' = "idle"
  /\ signOutPc' = "idle"
  /\ screen' = Render(r, NULL, TRUE)
  /\ profile' = NoProfile
  /\ pending' = {}
  /\ lastOp' = "pageLoad"
  /\ StorageUnchanged
  /\ AuthPagesUnchanged
  /\ DbUnchanged
  /\ UNCHANGED <<rateVars, extVars>>

\* The onAuthStateChange listener of the mount effect, called with session s.
onAuthStateChange(s) ==
  /\ session' = s
  /\ user' = s
  /\ loading' = FALSE
  /\ IF s # NULL
       THEN /\ pending' = pending \cup {"profile"}
            /\ UNCHANGED profile
       ELSE /\ profile' = NoProfile
            /\ UNCHANGED pending
  /\ screen' = Render(route, user', loading')
  /\ lastOp' = "onAuthStateChange"
  /\ UNCHANGED <<route, location, getSessionPending, signInPc, signOutPc>>
  /\ StorageUnchanged
  /\ AuthPagesUnchanged
  /\ DbUnchanged
  /\ UNCHANGED <<rateVars, extVars>>

\* getSession() of the mount effect resolves with session s.
getSession_then(s) ==
  /\ getSessionPending
  /\ getSessionPending' = FALSE
  /\ session' = s
  /\ user' = s
  /\ loading' = FALSE
  /\ pending' = IF s # NULL THEN pending \cup {"profile"} ELSE pending
  /\ screen' = Render(route, user', loading')
  /\ lastOp' = "getSession"
  /\ UNCHANGED <<route, location, signInPc, signOutPc, profile>>
  /\ StorageUnchanged
  /\ AuthPagesUnchanged
  /\ DbUnchanged
  /\ UNCHANGED <<rateVars, extVars>>

\* getSession() of the mount effect rejects.
getSession_catch ==
  /\ getSessionPending
  /\ getSessionPending' = FALSE
  /\ loading' = FALSE
  /\ screen' = Render(route, user, loading')
  /\ lastOp' = "getSession_catch"
  /\ UNCHANGED <<user, session, route, location, signInPc, signOutPc,
                 profile, pending>>
  /\ StorageUnchanged
  /\ AuthPagesUnchanged
  /\ DbUnchanged
  /\ UNCHANGED <<rateVars, extVars>>

\* A navigation inside the document loaded; an assignment to
\* window.location.href that has not taken effect yet keeps its target.
navigate(r) ==
  /\ route' = r
  /\ location' = IF location = route THEN r ELSE location
  /\ screen' = Render(r, user, loading)
  /\ UNCHANGED <<user, session, loading, getSessionPending, signInPc,
                 signOutPc, profile, pending>>
  /\ StorageUnchanged
  /\ AuthPagesUnchanged
  /\ DbUnchanged
  /\ UNCHANGED <<rateVars, extVars>>

\* The effect of a <Navigate> element rendered by DashboardLayout or Auth.
Navigate ==
  /\ screen \in {"navigate_auth", "navigate_root"}
  /\ navigate(IF screen = "navigate_auth" THEN "/auth" ELSE "/")
  /\ lastOp' = "Navigate"

\* The user follows a link of the header or of the Index page.
FollowLink(r) ==
  /\ screen \in {"content", "other"}
  /\ r # route
  /\ navigate(r)
  /\ lastOp' = "followLink"

\* A script of the page stores an item (the client library persists the
\* session under 'sb-<ref>-auth-token').  The application itself writes no
\* storage, and nothing writes while the sign-out routine is running.
setItem(store, key) ==
  /\ signOutPc = "idle"
  /\ IF store = "local"
       THEN /\ key \in LocalKeys \ localStorage
            /\ localStorage' = localStorage \cup {key}
            /\ UNCHANGED sessionStorage
       ELSE /\ key \in SessionKeys \ sessionStorage
            /\ sessionStorage' = sessionStorage \cup {key}
            /\ UNCHANGED localStorage
  /\ lastOp' = "setItem"
  /\ UNCHANGED <<user, session, loading, route, location, screen,
                 getSessionPending, signInPc, signOutPc, profile, pending>>
  /\ AuthPagesUnchanged
  /\ DbUnchanged
  /\ UNCHANGED <<rateVars, extVars>>

\* AuthProvider.signIn from the form of the Auth page: setLoading(true),
\* then performRobustSignIn up to its first await (cleanupAuthState).
signIn ==
  /\ screen = "authForm"
  /\ signInPc = "idle"
  /\ signOutPc = "idle"
  /\ loading' = TRUE
  /\ localStorage' = cleanupAuthState(localStorage)
  /\ sessionStorage' = cleanupAuthState(sessionStorage)
  /\ signInPc' = "await"
  /\ screen' = Render(route, user, loading')
  /\ lastOp' = "signIn"
  /\ UNCHANGED <<user, session, route, location, getSessionPending,
                 signOutPc, profile, pending>>
  /\ AuthPagesUnchanged
  /\ DbUnchanged
  /\ UNCHANGED <<rateVars, extVars>>

\* performRobustSignIn returns, with a user or with an error:
\* setLoading(false); with a user, the reload is scheduled.
signIn_settle(ok) ==
  /\ signInPc = "await"
  /\ loading' = FALSE
  /\ signInPc' = IF ok THEN "reload" ELSE "idle"
  /\ screen' = Render(route, user, loading')
  /\ lastOp' = "signIn_settle"
  /\ UNCHANGED <<user, session, route, location, getSessionPending,
                 signOutPc, profile, pending>>
  /\ StorageUnchanged
  /\ AuthPagesUnchanged
  /\ DbUnchanged
  /\ UNCHANGED <<rateVars, extVars>>

\* The timeout of performRobustSignIn: window.location.href = '/dashboard'.
signIn_reload ==
  /\ signInPc = "reload"
  /\ signInPc' = "idle"
  /\ location' = "/dashboard"
  /\ lastOp' = "signIn_reload"
  /\ UNCHANGED <<user, session, loading, route, screen, getSessionPending,
                 signOutPc, profile, pending>>
  /\ StorageUnchanged
  /\ AuthPagesUnchanged
  /\ DbUnchanged
  /\ UNCHANGED <<rateVars, extVars>>

\* AuthProvider.signOut, from the button of the header: setLoading(true),
\* then the import of the sign-out routine is awaited.
signOut ==
  /\ screen = "content"
  /\ signOutPc = "idle"
  /\ signInPc = "idle"
  /\ loading' = TRUE
  /\ signOutPc' = "import"
  /\ screen' = Render(route, user, loading')
  /\ lastOp' = "signOut"
  /\ UNCHANGED <<user, session, route, location, getSessionPending,
                 signInPc, profile, pending>>
  /\ StorageUnchanged
  /\ AuthPagesUnchanged
  /\ DbUnchanged
  /\ UNCHANGED <<rateVars, extVars>>

\* The import fails: the catch of AuthProvider.signOut redirects, then
\* setLoading(false).  performRobustSignOut is not called.
signOut_catch ==
  /\ signOutPc = "import"
  /\ signOutPc' = "idle"
  /\ location' = "/auth"
  /\ loading' = FALSE
  /\ screen' = Render(route, user, loading')
  /\ lastOp' = "signOut_catch"
  /\ UNCHANGED <<user, session, route, getSessionPending, signInPc,
                 profile, pending>>
  /\ StorageUnchanged
  /\ AuthPagesUnchanged
  /\ DbUnchanged
  /\ UNCHANGED <<rateVars, extVars>>

\* performRobustSignOut is called: cleanupAuthState(), then
\* supabase.auth.signOut({scope: 'global'}) is awaited.
performRobustSignOut ==
  /\ signOutPc = "import"
  /\ signOutPc' = "awaitSignOut"
  /\ localStorage' = cleanupAuthState(localStorage)
  /\ sessionStorage' = cleanupAuthState(sessionStorage)
  /\ lastOp' = "cleanupAuthState"
  /\ UNCHANGED <<user, session, loading, route, location, screen,
                 getSessionPending, signInPc, profile, pending>>
  /\ AuthPagesUnchanged
  /\ DbUnchanged
  /\ UNCHANGED <<rateVars, extVars>>

\* supabase.auth.signOut resolves (ok) or throws: either way
\* window.location.href = '/auth', and performRobustSignOut returns to
\* AuthProvider.signOut: setProfile(null), setLoading(false).  When the
\* sign-out succeeded the listener has been called with a null session.
performRobustSignOut_redirect(ok) ==
  /\ signOutPc = "awaitSignOut"
  /\ signOutPc' = "idle"
  /\ location' = "/auth"
  /\ user' = IF ok THEN NULL ELSE user
  /\ session' = IF ok THEN NULL ELSE session
  /\ profile' = NoProfile
  /\ loading' = FALSE
  /\ screen' = Render(route, user', loading')
  /\ lastOp' = "performRobustSignOut"
  /\ UNCHANGED <<route, getSessionPending, signInPc, pending>>
  /\ StorageUnchanged
  /\ AuthPagesUnchanged
  /\ DbUnchanged
  /\ UNCHANGED <<rateVars, extVars>>

(***************************************************************************)
(* The AIAnalysisButton and its rate limiter.                              *)
(***************************************************************************)
\* createRateLimiter(maxRequests, windowMs): the Map of a new limiter holds
\* no key.  A key without an entry reads as the empty list.
createRateLimiter == <<>>

\* The function createRateLimiter returns, applied to the key
\* 'ai-analysis' at time t with the Map's entry reqs: whether the request
\* may proceed, and the entry afterwards.
rateLimiter(reqs, t) ==
  LET windowStart == t - WindowMs
      recentRequests == SelectSeq(reqs, LAMBDA time : time > windowStart)
  IN IF Len(recentRequests) >= MaxRequests
       THEN [canProceed |-> FALSE, requests |-> reqs]
       ELSE [canProceed |-> TRUE, requests |-> Append(recentRequests, t)]

\* useRateLimit, at a render of the component: createRateLimiter is called
\* in the body of the hook, so that every render has a new limiter.
useRateLimit(reqs) == createRateLimiter

RateOthersUnchanged ==
  /\ UNCHANGED <<appVars, authVars, extVars>>
  /\ DbUnchanged

\* AIAnalysisButton.handleAnalysis, from a click on the enabled button.
\* A change of loading or isLimited renders the component again.
handleAnalysis(promptEmpty) ==
  /\ ~(analysisLoading \/ isLimited)
  /\ IF promptEmpty
       THEN /\ lastOp' = "handleAnalysis_noData"
            /\ UNCHANGED <<requests, isLimited, analysisLoading, invocations>>
       ELSE LET checkLimit == rateLimiter(requests, dateNow) IN
            IF ~checkLimit.canProceed
              THEN /\ isLimited' = TRUE
                   /\ requests' = useRateLimit(checkLimit.requests)
                   /\ lastOp' = "handleAnalysis_rateLimitExceeded"
                   /\ UNCHANGED <<analysisLoading, invocations>>
              ELSE /\ Len(invocations) < MaxInvocations
                   /\ isLimited' = FALSE
                   /\ analysisLoading' = TRUE
                   /\ invocations' = Append(invocations, dateNow)
                   /\ requests' = useRateLimit(checkLimit.requests)
                   /\ lastOp' = "handleAnalysis_invoke"
  /\ UNCHANGED dateNow
  /\ UNCHANGED <<profile, page, stats, projectsList, projectDialogOpen,
                 canCreateProject, limits, trialStatus, showTrialExpired, trialExpiredShown, pending,
                 pageProject, pageKeywords, openaiApiKey>>
  /\ UNCHANGED <<authVars, extVars>>
  /\ DbUnchanged

\* supabase.functions.invoke('ai-analysis') settles: setLoading(false).
invoke_settle ==
  /\ analysisLoading
  /\ analysisLoading' = FALSE
  /\ requests' = useRateLimit(requests)
  /\ lastOp' = "invoke_settle"
  /\ UNCHANGED <<isLimited, invocations, dateNow>>
  /\ UNCHANGED <<profile, page, stats, projectsList, projectDialogOpen,
                 canCreateProject, limits, trialStatus, showTrialExpired, trialExpiredShown, pending,
                 pageProject, pageKeywords, openaiApiKey>>
  /\ UNCHANGED <<authVars, extVars>>
  /\ DbUnchanged

\* The parent renders the button again.
RenderButton ==
  /\ lastOp # "render"
  /\ requests' = useRateLimit(requests)
  /\ lastOp' = "render"
  /\ UNCHANGED <<isLimited, analysisLoading, invocations, dateNow>>
  /\ UNCHANGED <<profile, page, stats, projectsList, projectDialogOpen,
                 canCreateProject, limits, trialStatus, showTrialExpired, trialExpiredShown, pending,
                 pageProject, pageKeywords, openaiApiKey>>
  /\ UNCHANGED <<authVars, extVars>>
  /\ DbUnchanged

\* Date.now() advances.
RateTick ==
  /\ dateNow + TickMs <= MaxNow
  /\ dateNow' = dateNow + TickMs
  /\ UNCHANGED <<requests, isLimited, analysisLoading, invocations>>
  /\ RateOthersUnchanged

\* The parts a specification leaves alone: nothing imported, no subscriber
\* row, the Settings page idle, no analysis made.
ExtIdle ==
  /\ importerKeywords = <<>>
  /\ subscribers = {}
  /\ settingsLoading = FALSE
  /\ settingsToast = "none"
  /\ refreshPc = "idle"
  /\ profileFetches = 0
  /\ subscriptionChecks = 0
  /\ brandContent = <<>>
  /\ brandResult = NoResult

\* States of the parts a specification leaves alone.
SignedIn(u) ==
  /\ user = u
  /\ session = u
  /\ loading = FALSE
  /\ route = "/"
  /\ location = "/"
  /\ screen = Render("/", u, FALSE)
  /\ getSessionPending = FALSE
  /\ signInPc = "idle"
  /\ signOutPc = "idle"
  /\ localStorage = {}
  /\ sessionStorage = {}
ButtonMounted ==
  /\ requests = createRateLimiter
  /\ isLimited = FALSE
  /\ analysisLoading = FALSE
  /\ invocations = <<>>
  /\ dateNow = 0

InitDB ==
  /\ authUsers = {}
  /\ profiles = {}
  /\ projects = {}
  /\ keywords = {}
  /\ reports = {}
  /\ api_responses = {}
  /\ clock = 0
  /\ nextId = [t \in Tables |-> 0]
  /\ req = [uid |-> NULL, op |-> "none", target |-> 0, ok |-> TRUE, rows |-> {}]
  /\ removed = {}
  \* the pages: nothing is mounted
  /\ profile = NoProfile
  /\ page = "none"
  /\ stats = [projects |-> 0]
  /\ projectsList = {}
  /\ projectDialogOpen = FALSE
  /\ canCreateProject = TRUE
  /\ limits = limits_initial
  /\ trialStatus = trialStatus_initial
  /\ showTrialExpired = FALSE
  /\ trialExpiredShown = FALSE
  /\ pending = {}
  /\ lastOp = "none"
  /\ pageProject = NoProject
  /\ pageKeywords = {}
  /\ openaiApiKey = ""
  /\ SignedIn(NULL)
  /\ ButtonMounted
  /\ ExtIdle

NextDB ==
  \/ \E u \in Users : SignUp(u)
  \/ \E uid \in Users : ReqSelectProjects(uid)
  \/ \E uid \in Users : ReqSelectKeywords(uid)
  \/ \E uid \in Users, id \in RowIds, owner \in Users : ReqInsertProject(uid, id, owner)
  \/ \E uid \in Users, id \in RowIds, owner \in Users : ReqUpdateProject(uid, id, owner)
  \/ \E uid \in Users, id \in RowIds : ReqDeleteProject(uid, id)
  \/ \E uid \in Users, id \in KeywordIds, pid \in RowIds : ReqInsertKeyword(uid, id, pid)
  \/ \E uid \in Users, id \in KeywordIds, pid \in RowIds : ReqUpdateKeyword(uid, id, pid)
  \/ \E uid \in Users, id \in KeywordIds : ReqDeleteKeyword(uid, id)
  \/ DbTick

\* The profiles row of a user on a plan: the trigger's row, with the plan
\* and the limits the plan migration sets for it.
profile_on_plan(id, plan, now) ==
  [profiles_defaults(id, id, now) EXCEPT
     !.plan = plan,
     !.projects_limit = get_plan_limits(plan).projects,
     !.keywords_limit = get_plan_limits(plan).keywords,
     !.reports_limit = get_plan_limits(plan).reports]

\* The application opened by Me, signed up at day 0, on any plan, with the
\* session established and the profile fetch in flight.
InitApp ==
  /\ authUsers = {[id |-> Me, email |-> Me, created_at |-> 0]}
  /\ \E plan \in Plans : profiles = {profile_on_plan(Me, plan, 0)}
  /\ projects = {}
  /\ keywords = {}
  /\ reports = {}
  /\ api_responses = {}
  /\ clock = 0
  /\ nextId = [t \in Tables |-> 0]
  /\ req = [uid |-> NULL, op |-> "none", target |-> 0, ok |-> TRUE, rows |-> {}]
  /\ removed = {}
  /\ profile = NoProfile
  /\ page = "none"
  /\ stats = [projects |-> 0]
  /\ projectsList = {}
  /\ projectDialogOpen = FALSE
  /\ canCreateProject = TRUE
  /\ limits = limits_initial
  /\ trialStatus = trialStatus_initial
  /\ showTrialExpired = FALSE
  /\ trialExpiredShown = FALSE
  /\ pending = {"profile"}
  /\ lastOp = "none"
  /\ pageProject = NoProject
  /\ pageKeywords = {}
  /\ openaiApiKey = ""
  /\ SignedIn(Me)
  /\ ButtonMounted
  /\ ExtIdle

\* The entries a bulk import may hold: n entries of one priority.
ImportEntries ==
  {[i \in 1..n |-> [priority |-> pr]] : n \in 1..MaxImport, pr \in {1}}

\* The application's steps, with the numbers of rows ever created capped.
RowsCreated == nextId["keywords"] + nextId["reports"] + nextId["api_responses"]

NextApp(maxProjects, maxRows) ==
  \/ FetchProfileDone
  \/ MountDashboard
  \/ \E error \in BOOLEAN : fetchPlanLimits(error)
  \/ checkTrialStatus
  \/ fetchDashboardData
  \/ openCreateDialog
  \/ (nextId["projects"] < maxProjects /\ handleCreateProject)
  \/ (nextId["projects"] < maxProjects /\ createProject)
  \/ \E id \in projectsList : handleDeleteProject(id)
  \/ \E id \in projectsList : handleViewProject(id)
  \/ (RowsCreated < maxRows /\ handleAddKeyword)
  \/ \E pr \in MyProjects, entries \in ImportEntries :
        /\ RowsCreated + Len(entries) <= maxRows
        /\ importKeywords(pr.id, entries)
  \/ setOpenaiApiKey
  \/ closeTrialExpired
  \/ \E url \in BOOLEAN : handleUpgrade(url)
  \/ \E analysed \in 0..MaxAnalysed :
        /\ RowsCreated + 1 + analysed <= maxRows
        /\ handleGenerateReport(analysed)
  \/ AppTick

NextDash == NextApp(MaxDashProjects, MaxDashRows)
NextCascade == NextApp(MaxCascadeProjects, MaxCascadeRows)
NextUsage == NextApp(MaxUsageProjects, MaxUsageRows)

\* The application is opened in a browser by a user who has an account.
InitAuth ==
  /\ authUsers = {[id |-> Me, email |-> Me, created_at |-> 0]}
  /\ profiles = {profile_on_plan(Me, "trial", 0)}
  /\ projects = {}
  /\ keywords = {}
  /\ reports = {}
  /\ api_responses = {}
  /\ clock = 0
  /\ nextId = [t \in Tables |-> 0]
  /\ req = [uid |-> NULL, op |-> "none", target |-> 0, ok |-> TRUE, rows |-> {}]
  /\ removed = {}
  /\ profile = NoProfile
  /\ page = "none"
  /\ stats = [projects |-> 0]
  /\ projectsList = {}
  /\ projectDialogOpen = FALSE
  /\ canCreateProject = TRUE
  /\ limits = limits_initial
  /\ trialStatus = trialStatus_initial
  /\ showTrialExpired = FALSE
  /\ trialExpiredShown = FALSE
  /\ pending = {}
  /\ lastOp = "none"
  /\ pageProject = NoProject
  /\ pageKeywords = {}
  /\ openaiApiKey = ""
  /\ user = NULL
  /\ session = NULL
  /\ loading = TRUE
  /\ route \in Routes
  /\ location = route
  /\ screen = Render(route, NULL, TRUE)
  /\ getSessionPending = TRUE
  /\ signInPc = "idle"
  /\ signOutPc = "idle"
  /\ localStorage = {}
  /\ sessionStorage = {}
  /\ ButtonMounted
  /\ ExtIdle

NextAuth ==
  \/ \E r \in Routes : PageLoad(r)
  \/ \E s \in {NULL, Me} : onAuthStateChange(s)
  \/ \E s \in {NULL, Me} : getSession_then(s)
  \/ getSession_catch
  \/ FetchProfileDone
  \/ Navigate
  \/ \E r \in Routes : FollowLink(r)
  \/ \E store \in {"local", "session"}, key \in LocalKeys \cup SessionKeys :
        setItem(store, key)
  \/ signIn
  \/ \E ok \in BOOLEAN : signIn_settle(ok)
  \/ signIn_reload
  \/ signOut
  \/ signOut_catch
  \/ performRobustSignOut
  \/ \E ok \in BOOLEAN : performRobustSignOut_redirect(ok)

\* An AIAnalysisButton is mounted on a page of a signed-in user.
InitRate ==
  /\ authUsers = {[id |-> Me, email |-> Me, created_at |-> 0]}
  /\ profiles = {profile_on_plan(Me, "trial", 0)}
  /\ projects = {}
  /\ keywords = {}
  /\ reports = {}
  /\ api_responses = {}
  /\ clock = 0
  /\ nextId = [t \in Tables |-> 0]
  /\ req = [uid |-> NULL, op |-> "none", target |-> 0, ok |-> TRUE, rows |-> {}]
  /\ removed = {}
  /\ profile = NoProfile
  /\ page = "none"
  /\ stats = [projects |-> 0]
  /\ projectsList = {}
  /\ projectDialogOpen = FALSE
  /\ canCreateProject = TRUE
  /\ limits = limits_initial
  /\ trialStatus = trialStatus_initial
  /\ showTrialExpired = FALSE
  /\ trialExpiredShown = FALSE
  /\ pending = {}
  /\ lastOp = "none"
  /\ pageProject = NoProject
  /\ pageKeywords = {}
  /\ openaiApiKey = ""
  /\ SignedIn(Me)
  /\ ButtonMounted
  /\ ExtIdle

NextRate ==
  \/ \E promptEmpty \in BOOLEAN : handleAnalysis(promptEmpty)
  \/ invoke_settle
  \/ RenderButton
  \/ RateTick

\* The importer is open on a project of the signed-in user.
InitImport ==
  /\ authUsers = {[id |-> Me, email |-> Me, created_at |-> 0]}
  /\ profiles = {profile_on_plan(Me, "gold", 0)}
  /\ projects = {[id |-> 1, user_id |-> Me]}
  /\ keywords = {}
  /\ reports = {}
  /\ api_responses = {}
  /\ clock = 0
  /\ nextId = [t \in Tables |-> IF t = "projects" THEN 1 ELSE 0]
  /\ req = [uid |-> NULL, op |-> "none", target |-> 0, ok |-> TRUE, rows |-> {}]
  /\ removed = {}
  /\ profile = NoProfile
  /\ page = "none"
  /\ stats = [projects |-> 0]
  /\ projectsList = {}
  /\ projectDialogOpen = FALSE
  /\ canCreateProject = TRUE
  /\ limits = limits_initial
  /\ trialStatus = trialStatus_initial
  /\ showTrialExpired = FALSE
  /\ trialExpiredShown = FALSE
  /\ pending = {}
  /\ lastOp = "none"
  /\ pageProject = NoProject
  /\ pageKeywords = {}
  /\ openaiApiKey = ""
  /\ SignedIn(Me)
  /\ ButtonMounted
  /\ ExtIdle

ImportTexts ==
  UNION {[1..n -> PriorityParts] : n \in 1..MaxImportLines}

NextImport ==
  \/ \E parts \in ImportTexts : parseTextInput(parts)
  \/ parseCsvFile
  \/ \E index \in 1..4, priority \in {0, 7, ImporterPriorityMax + 1} :
        updateKeywordPriority(index, priority)
  \/ \E index \in 1..4 : removeKeyword(index)
  \/ (nextId["keywords"] < MaxImportedRows /\ importKeywords_listed(1))

\* Two users have signed up; nobody has a subscribers row.
InitBilling ==
  /\ authUsers = {[id |-> u, email |-> u, created_at |-> 0] : u \in Users}
  /\ profiles = {profiles_defaults(u, u, 0) : u \in Users}
  /\ projects = {}
  /\ keywords = {}
  /\ reports = {}
  /\ api_responses = {}
  /\ clock = 0
  /\ nextId = [t \in Tables |-> 0]
  /\ req = [uid |-> NULL, op |-> "none", target |-> 0, ok |-> TRUE, rows |-> {}]
  /\ removed = {}
  /\ profile = NoProfile
  /\ page = "none"
  /\ stats = [projects |-> 0]
  /\ projectsList = {}
  /\ projectDialogOpen = FALSE
  /\ canCreateProject = TRUE
  /\ limits = limits_initial
  /\ trialStatus = trialStatus_initial
  /\ showTrialExpired = FALSE
  /\ trialExpiredShown = FALSE
  /\ pending = {}
  /\ lastOp = "none"
  /\ pageProject = NoProject
  /\ pageKeywords = {}
  /\ openaiApiKey = ""
  /\ SignedIn(Me)
  /\ ButtonMounted
  /\ ExtIdle

\* The requests of the signed-in user, sent by hand with their own token.
NextBilling ==
  \/ \E id \in Users, col \in ProfileColumns :
        \E val \in ProfileValues(col) : ReqUpdateProfile(Me, id, col, val)
  \/ \E user_id \in Users, email \in Users, subscribed \in BOOLEAN :
        ReqInsertSubscriber(Me, user_id, email, subscribed)
  \/ \E id \in 1..Cardinality(Users), col \in SubscriberColumns :
        \E val \in SubscriberValues(col) : ReqUpdateSubscriber(Me, id, col, val)

\* The Settings page is open for the signed-in user.
InitSettings ==
  /\ authUsers = {[id |-> Me, email |-> Me, created_at |-> 0]}
  /\ profiles = {profiles_defaults(Me, Me, 0)}
  /\ projects = {}
  /\ keywords = {}
  /\ reports = {}
  /\ api_responses = {}
  /\ clock = 0
  /\ nextId = [t \in Tables |-> 0]
  /\ req = [uid |-> NULL, op |-> "none", target |-> 0, ok |-> TRUE, rows |-> {}]
  /\ removed = {}
  /\ profile = NoProfile
  /\ page = "none"
  /\ stats = [projects |-> 0]
  /\ projectsList = {}
  /\ projectDialogOpen = FALSE
  /\ canCreateProject = TRUE
  /\ limits = limits_initial
  /\ trialStatus = trialStatus_initial
  /\ showTrialExpired = FALSE
  /\ trialExpiredShown = FALSE
  /\ pending = {}
  /\ lastOp = "none"
  /\ pageProject = NoProject
  /\ pageKeywords = {}
  /\ openaiApiKey = ""
  /\ SignedIn(Me)
  /\ ButtonMounted
  /\ ExtIdle

\* A call the page awaits settles, with or without an error.
Settles ==
  \/ \E error \in BOOLEAN : handleSaveProfile_updated(error)
  \/ \E error \in BOOLEAN : fetchProfile(error)
  \/ \E error \in BOOLEAN : checkSubscriptionStatus(error)

NextSettings ==
  \/ handleSaveProfile
  \/ Settles
  \/ \E col \in ProfileColumns :
        \E val \in ProfileValues(col) : ReqUpdateProfile(Me, Me, col, val)

\* The contents a completion may have: some prose, then nothing, a JSON
\* text, or a JSON text cut short.
ProseTokens ==
  {Word("Acme"), Word("is"), Word("Rank"), Word("confidence"), Num(2), Num(250)}
Proses == UNION {[1..n -> ProseTokens] : n \in 0..MaxProse}
JsonTexts ==
  {<<>>} \cup {stringify(o) : o \in JsonObjects}
    \cup {SubSeq(stringify(o), 1, Len(stringify(o)) - 1) : o \in JsonObjects}
BrandContents == {prose \o text : prose \in Proses, text \in JsonTexts}

\* A completion is at hand; no analysis has returned.
InitBrand ==
  /\ authUsers = {[id |-> Me, email |-> Me, created_at |-> 0]}
  /\ profiles = {profiles_defaults(Me, Me, 0)}
  /\ projects = {}
  /\ keywords = {}
  /\ reports = {}
  /\ api_responses = {}
  /\ clock = 0
  /\ nextId = [t \in Tables |-> 0]
  /\ req = [uid |-> NULL, op |-> "none", target |-> 0, ok |-> TRUE, rows |-> {}]
  /\ removed = {}
  /\ profile = NoProfile
  /\ page = "none"
  /\ stats = [projects |-> 0]
  /\ projectsList = {}
  /\ projectDialogOpen = FALSE
  /\ canCreateProject = TRUE
  /\ limits = limits_initial
  /\ trialStatus = trialStatus_initial
  /\ showTrialExpired = FALSE
  /\ trialExpiredShown = FALSE
  /\ pending = {}
  /\ lastOp = "none"
  /\ pageProject = NoProject
  /\ pageKeywords = {}
  /\ openaiApiKey = ""
  /\ SignedIn(Me)
  /\ ButtonMounted
  /\ importerKeywords = <<>>
  /\ subscribers = {}
  /\ settingsLoading = FALSE
  /\ settingsToast = "none"
  /\ refreshPc = "idle"
  /\ profileFetches = 0
  /\ subscriptionChecks = 0
  /\ brandContent \in BrandContents
  /\ brandResult = NoResult

NextBrand ==
  \/ analyzeBrandMention
  \/ analyzeBrandMention_error

vars == <<dbVars, appVars, authVars, rateVars, extVars>>

SpecDB == InitDB /\ [][NextDB]_vars
SpecDash == InitApp /\ [][NextDash]_vars
SpecCascade == InitApp /\ [][NextCascade]_vars
SpecUsage == InitApp /\ [][NextUsage]_vars
SpecAuth == InitAuth /\ [][NextAuth]_vars
SpecRate == InitRate /\ [][NextRate]_vars
SpecImport == InitImport /\ [][NextImport]_vars
SpecBilling == InitBilling /\ [][NextBilling]_vars
SpecBrand == InitBrand /\ [][NextBrand]_vars
\* Every call the Settings page awaits settles in the end.
SpecSettings == InitSettings /\ [][NextSettings]_vars /\ WF_vars(Settles)

(***************************************************************************)
(* Claims.                                                                 *)
(***************************************************************************)
RequestOps == {"select_projects", "select_keywords", "insert_project",
               "update_project", "delete_project", "insert_keyword",
               "update_keyword", "delete_keyword"}

\* The rows of the two tables that belong to somebody other than uid.
ForeignProjects(uid, projs) == {p \in projs : p.user_id # uid}
ForeignKeywords(uid, kws, projs) ==
  {k \in kws : \E p \in ForeignProjects(uid, projs) : p.id = k.project_id}

\* What uid would be shown if nobody else's rows existed.
ViewWithoutOthers(uid, op, projs, kws) ==
  LET own == projs \ ForeignProjects(uid, projs) IN
    IF op = "select_projects"
      THEN VisibleProjects(uid, own)
      ELSE VisibleKeywords(uid, kws \ ForeignKeywords(uid, kws, projs), own)

\* C5: row-level security isolates users.  In every step that serves a
\* request of an authenticated user A: the rows returned hold no projects
\* row of another user and no keywords row of another user's project; the
\* projects and keywords rows of other users are the same before and after
\* (none modified, deleted, or added: no insert into B's project, no row of
\* A's handed to B); and a select returns exactly what it would return if
\* the other users' rows did not exist.
RLSIsolationStep ==
  req'.op \in RequestOps =>
    LET a == req'.uid IN
      /\ req'.rows \cap (ForeignProjects(a, projects') \cup
                         ForeignKeywords(a, keywords', projects')) = {}
      /\ ForeignProjects(a, projects') = ForeignProjects(a, projects)
      /\ ForeignKeywords(a, keywords', projects') =
           ForeignKeywords(a, keywords, projects)
      /\ req'.op \in {"select_projects", "select_keywords"} =>
           req'.rows = ViewWithoutOthers(a, req'.op, projects', keywords')
C5_RLSIsolation == [][RLSIsolationStep]_vars

\* C5 witness: A's delete, update or insert aimed at a project row that B
\* owns (with a keyword in it) has been served, and B's rows are in place.
C5_Witness ==
  /\ req.uid = "A"
  /\ req.op \in {"delete_project", "update_project", "insert_keyword"}
  /\ \E p \in projects : p.user_id = "B" /\
        (req.op = "insert_keyword" \/ p.id = req.target)
  /\ \E k \in ForeignKeywords("A", keywords, projects) : TRUE
  /\ \E p \in projects : p.user_id = "A"

\* C6: every row inserted into auth.users gets, in the same step, exactly
\* one profiles row with its id, on plan 'trial', with the limits of
\* get_plan_limits('trial') (1, 10, 5) and a trial end 14 days after the
\* creation; and at all times every user has exactly one profiles row.
NewUserHasTrialProfile ==
  \A u \in authUsers' \ authUsers :
    LET ps == {p \in profiles' : p.id = u.id} IN
      /\ Cardinality(ps) = 1
      /\ \A p \in ps :
           /\ p.plan = "trial"
           /\ p.projects_limit = get_plan_limits("trial").projects
           /\ p.keywords_limit = get_plan_limits("trial").keywords
           /\ p.reports_limit = get_plan_limits("trial").reports
           /\ <<p.projects_limit, p.keywords_limit, p.reports_limit>> = <<1, 10, 5>>
           /\ p.trial_ends_at = u.created_at + 14
OneProfilePerUser ==
  /\ \A u \in authUsers : Cardinality({p \in profiles : p.id = u.id}) = 1
  /\ \A p \in profiles : \E u \in authUsers : u.id = p.id
C6_SignupCreatesTrialProfile ==
  []OneProfilePerUser /\ [][NewUserHasTrialProfile]_vars

\* C6 witness: a user who signed up after the clock had advanced, with the
\* profile the trigger made.
C6_Witness ==
  \E u \in authUsers : u.created_at > 0 /\ \E p \in profiles : p.id = u.id

\* The plan of Me in the database, and its limits.
MyPlan == (CHOOSE p \in profiles : p.id = Me).plan

\* C1: the number of projects Me owns never exceeds the projects limit of
\* Me's plan (trial 1, basic 3, gold 10), whatever projects are created and
\* deleted through the Dashboard dialog and the onboarding flow, creations
\* attempted before the plan limits have loaded included.
C1_ProjectsWithinLimit ==
  Cardinality(MyProjects) <= get_plan_limits(MyPlan).projects

\* C2: the number of keywords Me tracks never exceeds the keywords limit
\* of Me's plan (trial 10, basic 25, gold 50), whatever keywords are added
\* on the project page and by bulk import.
C2_KeywordsWithinLimit ==
  Cardinality(MyKeywords) <= get_plan_limits(MyPlan).keywords

\* C3: the number of reports Me has created never exceeds the reports limit
\* of Me's plan (trial 5, basic 15, gold 50): handleGenerateReport creates
\* no reports row once the limit is reached.
C3_ReportsWithinLimit ==
  Cardinality(MyReports) <= get_plan_limits(MyPlan).reports

\* C4: a trial user whose trial has expired (the is_trial_expired call
\* returned true) cannot create a project from the Dashboard:
\* canCreateProject is false after the limit check has run with the limits
\* loaded, and a step of handleCreateProject inserts no projects row, also
\* when the user owns fewer projects than the trial limit.
ExpiredTrialKnown ==
  /\ page = "dashboard"
  /\ profile.plan = "trial"
  /\ trialStatus.isTrialExpired
  /\ ~limits.isLoading
ExpiredTrialStep ==
  (ExpiredTrialKnown /\ lastOp' = "handleCreateProject") =>
    /\ ~canCreateProject
    /\ projects' = projects
C4_ExpiredTrialCannotCreate == [][ExpiredTrialStep]_vars

\* C7: deleting a project from the Dashboard deletes everything that hangs
\* on it.  After a step of handleDeleteProject for project d: no projects
\* row d, no keywords row and no reports row with project_id d, no
\* api_responses row of a report that had project_id d, and no card d in
\* the Dashboard's list.
DeleteProjectStep ==
  lastOp' = "handleDeleteProject" =>
    LET d == req'.target IN
      /\ \A p \in projects' : p.id # d
      /\ \A k \in keywords' : k.project_id # d
      /\ \A r \in reports' : r.project_id # d
      /\ \A a \in api_responses' :
            ~\E r \in reports : r.id = a.report_id /\ r.project_id = d
      /\ \A a \in api_responses' : \E r \in reports' : r.id = a.report_id
      /\ d \notin projectsList'
C7_DeleteProjectCascades == [][DeleteProjectStep]_vars

\* C7 witness: handleDeleteProject has just deleted a project that had a
\* keyword, a report and an api_responses row.
C7_Witness ==
  /\ lastOp = "handleDeleteProject"
  /\ \E x \in removed : DOMAIN x = {"id", "user_id"}
  /\ \E x \in removed : DOMAIN x = {"id", "project_id", "priority"}
  /\ \E x \in removed : DOMAIN x = {"id", "project_id", "user_id", "status"}
  /\ \E x \in removed : DOMAIN x = {"id", "report_id"}

\* C8: the content of a page wrapped in DashboardLayout is rendered only
\* when auth loading is false and user is non-null; on such a page a
\* spinner is rendered while loading, and a redirect to /auth when loading
\* is over and there is no user; the Auth page renders a redirect away
\* whenever user is non-null; and the redirects rendered lead where they say.
LayoutGuards ==
  /\ screen = "content" => (~loading /\ user # NULL /\ route \in LayoutRoutes)
  /\ (route \in LayoutRoutes /\ loading) => screen = "spinner"
  /\ (route \in LayoutRoutes /\ ~loading /\ user = NULL) => screen = "navigate_auth"
  /\ (route = "/auth" /\ user # NULL) => screen = "navigate_root"
NavigateStep ==
  lastOp' = "Navigate" =>
    /\ screen = "navigate_auth" => route' = "/auth"
    /\ screen = "navigate_root" => route' = "/"
C8_LayoutShowsContentOnlyToUsers == []LayoutGuards /\ [][NavigateStep]_vars

\* C8 witness: the session check has resolved with a user on the Settings
\* page, and the page content is rendered.
C8_Witness ==
  /\ lastOp = "getSession"
  /\ route = "/settings"
  /\ screen = "content"

\* C9: a call of performRobustSignOut returns with window.location.href
\* set to '/auth', when the global sign-out resolves and when it throws
\* (both outcomes can be taken), and from cleanupAuthState on until the
\* redirect neither storage holds a key that starts with 'supabase.auth.'
\* or includes 'sb-'.
hasAuthKey(store) ==
  \E key \in store :
     startsWith(key, supabase_auth_prefix) \/ includes(key, sb_dash)
CleanedWhileAwaiting ==
  signOutPc = "awaitSignOut" =>
    /\ ~hasAuthKey(localStorage)
    /\ ~hasAuthKey(sessionStorage)
    /\ \A ok \in BOOLEAN : ENABLED performRobustSignOut_redirect(ok)
SignOutReturnStep ==
  lastOp' = "performRobustSignOut" =>
    /\ location' = "/auth"
    /\ ~hasAuthKey(localStorage')
    /\ ~hasAuthKey(sessionStorage')
InvocationsInWindow(i) ==
  Cardinality({j \in 1..i : invocations[j] > invocations[i] - WindowMs})
C10_AtMostTenPerWindow ==
  \A i \in 1..Len(invocations) : InvocationsInWindow(i) <= MaxRequests

\* The rejecting branch of handleAnalysis is never taken: the limiter that
\* checks a click is the one of the latest render and holds no request, so
\* isLimited is never set.  (The recovery C11 describes, after a rejection,
\* therefore has no behaviour of the button to be observed on.)
RateLimitNeverRejects ==
  /\ ~isLimited
  /\ requests = createRateLimiter
  /\ lastOp # "handleAnalysis_rateLimitExceeded"

\* C12: every entry the bulk importer lists, with any priority of its
\* range 1..10 (the rows of its CSV template included), satisfies the
\* priority constraint of the keywords table: no entry is marked 'error'
\* after an import because the database refused its priority.
RefusedForPriority(entry) ==
  /\ entry.status = "error"
  /\ ~keywords_priority_check(entry.priority)
C12_ImporterPrioritiesFitTable ==
  \A i \in DOMAIN importerKeywords : ~RefusedForPriority(importerKeywords[i])

\* C13: when a trial expires the trial-expired dialog is shown: in every
\* state where the Dashboard is open on a profile whose plan is 'trial' and
\* whose trial end has passed, and no call of its hooks is in flight,
\* showTrialExpired has been set to true, also when the end passes while
\* the session is open.
TrialLapsedOnDashboard ==
  /\ page = "dashboard"
  /\ pending = {}
  /\ profile # NoProfile
  /\ is_trial_expired(profile, clock)
C13_ExpiredTrialDialogShown ==
  TrialLapsedOnDashboard => trialExpiredShown

\* C14: a request of an authenticated user that the row-level policies
\* let through changes neither plan, projects_limit, keywords_limit,
\* reports_limit or trial_ends_at of that user's profiles row, nor
\* subscribed, subscription_tier or subscription_end of a subscribers row
\* of that user.
ProfileBilling(p) ==
  [c \in ProfileColumns |-> p[c]]
SubscriberBilling(x) ==
  [c \in SubscriberColumns |-> x[c]]
BillingKept(uid) ==
  /\ \A p \in profiles : p.id = uid =>
        \A q \in profiles' : q.id = p.id => ProfileBilling(q) = ProfileBilling(p)
  /\ \A x \in subscribers : x.user_id = uid =>
        \A y \in subscribers' : y.id = x.id => SubscriberBilling(y) = SubscriberBilling(x)
C14_UserCannotChangeBilling ==
  [][(req'.op \in {"update_profile", "insert_subscriber", "update_subscriber"}
        /\ req'.ok)
       => BillingKept(req'.uid)]_vars

\* C15: refreshProfile terminates after a bounded number of profile
\* fetches and check-subscription invocations: a save that has set loading
\* to true leads to loading being false again (after the toast 'Profile
\* updated', or 'Update failed' when the update failed).
C15_SaveProfileTerminates ==
  settingsLoading ~> ~settingsLoading

\* C16: in every result of parseBrandAnalysis, a brand that is not
\* mentioned has no position: brandMentioned = false implies position = null.
C16_NotMentionedHasNoPosition ==
  (IsResult(brandResult) /\ ~brandResult.brandMentioned)
    => brandResult.position = JNull

\* C17: the confidence of every result is a number between 0 and 100
\* inclusive: the JSON confidence when the completion carries one, else the
\* number of the first 'confidence N' of the text, else 50.
ConfidenceSource(content) ==
  IF ~nullish(parsedData(content).confidence) THEN parsedData(content).confidence
  ELSE IF firstMatch(content, {"confidence"}) # 0
    THEN Num(content[firstMatch(content, {"confidence"}) + 1].n)
  ELSE Num(DefaultConfidence)
C17_ConfidenceWithinRange ==
  IsResult(brandResult) =>
    /\ brandResult.confidence = ConfidenceSource(brandContent)
    /\ brandResult.confidence.t = "num"
    /\ brandResult.confidence.n >= 0
    /\ brandResult.confidence.n <= 100

====
